---- MODULE Spec2Model ----
(***************************************************************************)
(* Model of the ReelsBot content-generation pipeline                       *)
(* (app/services/content_generator.py, app/services/music_service.py).     *)
(*                                                                         *)
(* Python strings are sequences of one-character strings, so that          *)
(* str.split, str.strip, str.lower, "in" and str.startswith are computed   *)
(* character by character, as the interpreter computes them.               *)
(***************************************************************************)
EXTENDS Integers, Sequences, FiniteSets, TLC

VARIABLES
    pc,             \* position of the operation in progress
    script,         \* argument of _generate_timestamps
    timestamps,     \* its return value
    content,        \* the content dict being scored or assembled
    quality_score,  \* outcome of _calculate_quality_score
    raw_content,    \* argument of _parse_generated_content
    parsed,         \* its outcome: a returned dict or a raised exception
    spotify,        \* MusicService.spotify is set (a catalog client exists)
    tone,           \* arguments of get_music_suggestions
    platform,
    limit,
    suggestions,    \* its return value
    search_calls,   \* number of calls of self.spotify.search
    catalog_reply,  \* what self.spotify.search did when it was called
    include_music,  \* argument of generate_content
    spotify_client_id,  \* settings.SPOTIFY_CLIENT_ID is set
    wandb_api_key,  \* settings.WANDB_API_KEY is set
    llm_result,     \* outcome of "await chain.arun(...)"
    llm_calls,      \* number of calls of chain.arun
    music_result,   \* outcome of "await self.music_service.get_music_suggestions(...)"
    stages,         \* the stages generate_content has entered, in order
    result,         \* outcome of generate_content
    files,          \* the template files under templates_dir, by file name
    cache,          \* PromptLoader._cache
    tpl_call,       \* the last get_template call: its arguments and what it did
    tpl_result,     \* its return value
    first_returned, \* per cache key, the first value get_template returned
    tpl_calls,      \* number of get_template calls
    file_changes,   \* number of changes made to the template files
    memory,         \* ContentGeneratorService.memory: the saved exchanges
    calls,          \* the generate_content calls on one service instance
    request_data,   \* the body posted to /generate
    handler,        \* the locals of the route handler and its database session
    database,       \* the committed rows of generation_requests and content_scripts
    response,       \* what the endpoint answered
    requests,       \* RateLimitMiddleware.requests
    clock,          \* time.time()
    accepted,       \* the requests passed downstream, with client and time
    rl_response     \* what the middleware did with the last request

vars == <<pc, script, timestamps, content, quality_score, raw_content, parsed,
          spotify, tone, platform, limit, suggestions, search_calls,
          catalog_reply, include_music, spotify_client_id, wandb_api_key, llm_result, llm_calls,
          music_result, stages, result, files, cache, tpl_call, tpl_result,
          first_returned, tpl_calls, file_changes, memory, calls, request_data,
          handler, database, response, requests, clock, accepted, rl_response>>

ts_vars == <<script, timestamps>>
score_vars == <<content, quality_score>>
parse_vars == <<raw_content, parsed>>
music_vars == <<spotify, tone, platform, limit, suggestions, search_calls,
               catalog_reply>>
gc_vars == <<include_music, spotify_client_id, wandb_api_key, llm_result, llm_calls,
             music_result, stages, result>>
tpl_vars == <<files, cache, tpl_call, tpl_result, first_returned, tpl_calls,
              file_changes>>
sess_vars == <<memory, calls>>
route_vars == <<request_data, handler, database, response>>
rl_vars == <<requests, clock, accepted, rl_response>>

(***************************************************************************)
(* Bounds of the input spaces.                                             *)
(***************************************************************************)
MaxScriptChunks == 4
MaxLines == 3
MaxMembers == 2
MaxTracks == 3
MaxLimit == 2
MaxReplyParts == 2
MaxTplCalls == 2
MaxFileChanges == 1
MaxSessionCalls == 2
MaxDbErrors == 1

\* The rate limiter: the limit of requests per window (100 in add_middlewares,
\* scaled down), the seconds between two readings of the clock that differ,
\* the last reading, and the number of requests dispatched.
requests_per_minute == 2
ClockStep == 30
MaxClock == 120
MaxDispatches == 5

\* get_music_suggestions(..., limit: int = 5)
DefaultLimit == 5

(***************************************************************************)
(* Python str primitives.                                                  *)
(***************************************************************************)
Rep(c, n) == [i \in 1..n |-> c]

RECURSIVE Flatten(_)
Flatten(ss) == IF ss = <<>> THEN <<>> ELSE Head(ss) \o Flatten(Tail(ss))

\* All sequences of at most n elements of S.
SeqsUpTo(S, n) == UNION {[1..k -> S] : k \in 0..n}

IsSpace(c) == c \in {" ", "\n", "\t", "\r"}

\* Least and greatest element of a non-empty set of integers.
SetMin(S) == CHOOSE x \in S : \A y \in S : x <= y
SetMax(S) == CHOOSE x \in S : \A y \in S : x >= y

\* str.strip(): drop the leading and trailing whitespace.
Strip(s) ==
    LET keep == {i \in 1..Len(s) : ~IsSpace(s[i])}
    IN  IF keep = {} THEN <<>> ELSE SubSeq(s, SetMin(keep), SetMax(keep))

\* str.split(c) for a one-character separator: k separators give k+1 fragments,
\* empty ones included.
Split(s, c) ==
    LET P == {i \in 1..Len(s) : s[i] = c}
        n == Cardinality(P)
        pos(k) == IF k = 0 THEN 0
                  ELSE IF k = n + 1 THEN Len(s) + 1
                  ELSE CHOOSE i \in P : Cardinality({j \in P : j <= i}) = k
    IN  [k \in 1..(n + 1) |-> SubSeq(s, pos(k - 1) + 1, pos(k) - 1)]

Min(a, b) == IF a < b THEN a ELSE b
Max(a, b) == IF a > b THEN a ELSE b

(***************************************************************************)
(* ContentGeneratorService._generate_timestamps                            *)
(***************************************************************************)
\* Mutant of Sentences: the "if s.strip()" filter is dropped.
SentencesUnfiltered(s) ==
    LET parts == Split(s, ".")
    IN  [i \in 1..Len(parts) |-> Strip(parts[i])]

\* sentences = [s.strip() for s in script.split(".") if s.strip()]
Sentences(s) ==
    LET parts == Split(s, ".")
        stripped == [i \in 1..Len(parts) |-> Strip(parts[i])]
    IN  SelectSeq(stripped, LAMBDA f : f # <<>>)

\* Mutant of Duration: the lower clamp max(2, ...) is dropped.
DurationNoFloor(sentence) == Min(4, Len(sentence) \div 20)

\* duration = max(2, min(4, len(sentence) // 20))
Duration(sentence) == Max(2, Min(4, Len(sentence) \div 20))

\* The loop body: append one segment at current_time, then advance current_time.
RECURSIVE TimestampLoop(_, _, _)
TimestampLoop(sentences, i, current_time) ==
    IF i > Len(sentences) THEN <<>>
    ELSE LET duration == Duration(sentences[i])
         IN  <<[start |-> current_time,
                end   |-> current_time + duration,
                text  |-> sentences[i],
                type  |-> "narration"]>>
             \o TimestampLoop(sentences, i + 1, current_time + duration)

generate_timestamps(s) ==
    LET sentences == Sentences(s)
    IN  IF sentences = <<>> THEN <<>> ELSE TimestampLoop(sentences, 1, 0)

(***************************************************************************)
(* Python values held by the content dict, tagged with their type.         *)
(***************************************************************************)
PyStr(s)  == [t |-> "str", v |-> s]
PyList(l) == [t |-> "list", v |-> l]
PyInt(n)  == [t |-> "int", v |-> n]
PyNone    == [t |-> "none", v |-> <<>>]

\* dict.get(key): None when the key is absent.
Get(d, key) == IF key \in DOMAIN d THEN d[key] ELSE PyNone

\* d[key] = value
SetItem(d, key, value) ==
    [k \in DOMAIN d \cup {key} |-> IF k = key THEN value ELSE d[k]]

\* bool(x)
Truthy(x) ==
    CASE x.t = "none" -> FALSE
      [] x.t = "int"  -> x.v # 0
      [] OTHER        -> x.v # <<>>

\* The keys of the content dict.
k_hook              == <<"h", "o", "o", "k">>
k_storyline         == <<"s", "t", "o", "r", "y", "l", "i", "n", "e">>
k_script            == <<"s", "c", "r", "i", "p", "t">>
k_timestamps        == <<"t", "i", "m", "e", "s", "t", "a", "m", "p", "s">>
k_hashtags          == <<"h", "a", "s", "h", "t", "a", "g", "s">>
k_music_suggestions == <<"m", "u", "s", "i", "c", "_", "s", "u", "g", "g", "e", "s", "t", "i", "o", "n", "s">>
k_model_used        == <<"m", "o", "d", "e", "l", "_", "u", "s", "e", "d">>
k_quality_score     == <<"q", "u", "a", "l", "i", "t", "y", "_", "s", "c", "o", "r", "e">>

(***************************************************************************)
(* ContentGeneratorService._calculate_quality_score                        *)
(* len() of None or of an int raises TypeError.                            *)
(***************************************************************************)
HasLen(x) == x.t \in {"str", "list"}

\* type(x).__name__ of a value without len().
TypeName(x) == IF x.t = "int" THEN <<"i", "n", "t">> ELSE <<"N", "o", "n", "e", "T", "y", "p", "e">>

\* str(e) of the TypeError that len(x) raises.
NoLenMessage(x) == <<"o", "b", "j", "e", "c", "t", " ", "o", "f", " ", "t", "y", "p", "e", " ", "'">> \o TypeName(x) \o <<"'", " ", "h", "a", "s", " ", "n", "o", " ", "l", "e", "n", "(", ")">>

\* The keys whose length the score reads, in the order of the if statements.
ScoreKeys == <<k_hook, k_storyline, k_script, k_hashtags>>

\* "content.get(key) and len(content[key]) <cmp> n" raises when the value is
\* truthy and has no len().
ScoreRaisesAt(c) ==
    {i \in DOMAIN ScoreKeys :
        Truthy(Get(c, ScoreKeys[i])) /\ ~HasLen(c[ScoreKeys[i]])}

ScoreRaises(c) == ScoreRaisesAt(c) # {}

\* Mutant of ScorePoints: the hashtags test is "> 3" instead of ">= 3".
ScorePointsHashtagsStrict(c) ==
    LET hook      == IF Truthy(Get(c, k_hook))
                        /\ Len(c[k_hook].v) > 10 THEN 2 ELSE 0
        storyline == IF Truthy(Get(c, k_storyline))
                        /\ Len(c[k_storyline].v) > 20 THEN 2 ELSE 0
        scriptPts == IF Truthy(Get(c, k_script))
                        /\ Len(c[k_script].v) > 50 THEN 3 ELSE 0
        hashtags  == IF Truthy(Get(c, k_hashtags))
                        /\ Len(c[k_hashtags].v) > 3 THEN 2 ELSE 0
        stamps    == IF Truthy(Get(c, k_timestamps)) THEN 1 ELSE 0
    IN  Min(10, hook + storyline + scriptPts + hashtags + stamps)

ScorePoints(c) ==
    LET hook      == IF Truthy(Get(c, k_hook))
                        /\ Len(c[k_hook].v) > 10 THEN 2 ELSE 0
        storyline == IF Truthy(Get(c, k_storyline))
                        /\ Len(c[k_storyline].v) > 20 THEN 2 ELSE 0
        scriptPts == IF Truthy(Get(c, k_script))
                        /\ Len(c[k_script].v) > 50 THEN 3 ELSE 0
        hashtags  == IF Truthy(Get(c, k_hashtags))
                        /\ Len(c[k_hashtags].v) >= 3 THEN 2 ELSE 0
        stamps    == IF Truthy(Get(c, k_timestamps)) THEN 1 ELSE 0
    IN  Min(10, hook + storyline + scriptPts + hashtags + stamps)

\* The outcome of a call: a returned value or a raised exception.
Return(value) == [kind |-> "return", value |-> value]
Raise(type, message) == [kind |-> "raise", type |-> type, message |-> message]

calculate_quality_score(c) ==
    IF ScoreRaises(c)
    THEN Raise("TypeError", NoLenMessage(c[ScoreKeys[SetMin(ScoreRaisesAt(c))]]))
    ELSE Return(ScorePoints(c))

(***************************************************************************)
(* More Python str primitives, used by the response parser.                *)
(***************************************************************************)
UpperChars == <<"A", "B", "C", "D", "E", "F", "G", "H", "I", "J", "K", "L", "M", "N", "O", "P", "Q", "R", "S", "T", "U", "V", "W", "X", "Y", "Z">>
LowerChars == <<"a", "b", "c", "d", "e", "f", "g", "h", "i", "j", "k", "l", "m", "n", "o", "p", "q", "r", "s", "t", "u", "v", "w", "x", "y", "z">>

LowerChar(c) ==
    IF \E i \in 1..26 : UpperChars[i] = c
    THEN LowerChars[CHOOSE i \in 1..26 : UpperChars[i] = c]
    ELSE c

\* str.lower()
Lower(s) == [i \in 1..Len(s) |-> LowerChar(s[i])]

\* p in s
Contains(s, p) ==
    \E i \in 1..(Len(s) - Len(p) + 1) : SubSeq(s, i, i + Len(p) - 1) = p

\* s.startswith(p)
StartsWith(s, p) == Len(s) >= Len(p) /\ SubSeq(s, 1, Len(p)) = p

\* The elements of a set of integers in increasing order.
Sorted(P) ==
    [k \in 1..Cardinality(P) |->
        CHOOSE i \in P : Cardinality({j \in P : j <= i}) = k]

\* str.split(): the maximal runs of non-whitespace characters.
SplitWs(s) ==
    LET starts == {i \in 1..Len(s) :
                      ~IsSpace(s[i]) /\ (i = 1 \/ IsSpace(s[i - 1]))}
        stop(i) == SetMin({j \in i..Len(s) : j = Len(s) \/ IsSpace(s[j + 1])})
        order == Sorted(starts)
    IN  [k \in 1..Len(order) |-> SubSeq(s, order[k], stop(order[k]))]

\* s.strip(c): drop the leading and trailing occurrences of the character c.
StripChar(s, c) ==
    LET keep == {i \in 1..Len(s) : s[i] # c}
    IN  IF keep = {} THEN <<>> ELSE SubSeq(s, SetMin(keep), SetMax(keep))

\* line.split(":", 1): the text before and the text after the first colon, or
\* the whole line alone when it holds no colon.
SplitFirstColon(line) ==
    LET P == {i \in 1..Len(line) : line[i] = ":"}
    IN  IF P = {} THEN <<line>>
        ELSE <<SubSeq(line, 1, SetMin(P) - 1),
               SubSeq(line, SetMin(P) + 1, Len(line))>>

(***************************************************************************)
(* ContentGeneratorService._parse_generated_content: the line scan.        *)
(***************************************************************************)
\* [tag.strip("#").strip() for tag in text.split() if tag.startswith("#")]
HashTags(text) ==
    LET tags == SelectSeq(SplitWs(text), LAMBDA tag : StartsWith(tag, <<"#">>))
    IN  [i \in 1..Len(tags) |-> Strip(StripChar(tags[i], "#"))]

\* The dict the scan starts from.
EmptyContent ==
    [k \in {k_hook, k_storyline, k_script, k_timestamps, k_hashtags} |->
        IF k \in {k_timestamps, k_hashtags} THEN PyList(<<>>) ELSE PyStr(<<>>)]

NoSection == <<>>

\* The text after the first colon of a label line, stripped.
LabelText(line) == Strip(SplitFirstColon(line)[2])

\* Mutant of SectionOf: labels are recognised only at the start of the line and
\* in upper case.
SectionOfUpperOnly(line) ==
    IF StartsWith(line, <<"H", "O", "O", "K", ":">>) THEN k_hook
    ELSE IF StartsWith(line, <<"S", "T", "O", "R", "Y", "L", "I", "N", "E", ":">>) THEN k_storyline
    ELSE IF StartsWith(line, <<"S", "C", "R", "I", "P", "T", ":">>) THEN k_script
    ELSE IF StartsWith(line, <<"H", "A", "S", "H", "T", "A", "G", "S", ":">>) THEN k_hashtags
    ELSE NoSection

\* The section a line opens: the if/elif chain on "label in line.lower()".
SectionOf(line) ==
    IF Contains(Lower(line), <<"h", "o", "o", "k", ":">>) THEN k_hook
    ELSE IF Contains(Lower(line), <<"s", "t", "o", "r", "y", "l", "i", "n", "e", ":">>) THEN k_storyline
    ELSE IF Contains(Lower(line), <<"s", "c", "r", "i", "p", "t", ":">>) THEN k_script
    ELSE IF Contains(Lower(line), <<"h", "a", "s", "h", "t", "a", "g", "s", ":">>) THEN k_hashtags
    ELSE NoSection

\* Mutant of ContinueSection: continuation lines are appended without the
\* joining space.
ContinueSectionNoSpace(st, line) ==
    LET cs == st.current_section
        c == st.content
    IN  IF cs \in {k_hook, k_storyline, k_script}
        THEN [st EXCEPT !.content = [c EXCEPT ![cs] = PyStr(c[cs].v \o line)]]
        ELSE IF cs = k_hashtags /\ StartsWith(line, <<"#">>)
        THEN [st EXCEPT !.content =
                 [c EXCEPT ![k_hashtags] = PyList(c[k_hashtags].v \o HashTags(line))]]
        ELSE st

\* elif current_section and line: continue building the current section.
ContinueSection(st, line) ==
    LET cs == st.current_section
        c == st.content
    IN  IF cs \in {k_hook, k_storyline, k_script}
        THEN [st EXCEPT !.content =
                 [c EXCEPT ![cs] = PyStr(c[cs].v \o <<" ">> \o line)]]
        ELSE IF cs = k_hashtags /\ StartsWith(line, <<"#">>)
        THEN [st EXCEPT !.content =
                 [c EXCEPT ![k_hashtags] = PyList(c[k_hashtags].v \o HashTags(line))]]
        ELSE st

\* One iteration of "for line in lines".
ScanLine(st, rawline) ==
    LET line == Strip(rawline)
        sec == SectionOf(line)
    IN  IF line = <<>> THEN st
        ELSE IF sec = k_hashtags
        THEN [content |-> [st.content EXCEPT
                              ![k_hashtags] = PyList(HashTags(LabelText(line)))],
              current_section |-> k_hashtags]
        ELSE IF sec # NoSection
        THEN [content |-> [st.content EXCEPT ![sec] = PyStr(LabelText(line))],
              current_section |-> sec]
        ELSE IF st.current_section # NoSection
        THEN ContinueSection(st, line)
        ELSE st

RECURSIVE ScanLines(_, _, _)
ScanLines(lines, i, st) ==
    IF i > Len(lines) THEN st
    ELSE ScanLines(lines, i + 1, ScanLine(st, lines[i]))

\* The text path: scan the lines, then "if content['script']: timestamps = ...".
parse_text(raw) ==
    LET start == [content |-> EmptyContent, current_section |-> NoSection]
        finish(c) ==
            IF c[k_script].v # <<>>
            THEN [c EXCEPT ![k_timestamps] =
                               PyList(generate_timestamps(c[k_script].v))]
            ELSE c
    IN  CHOOSE r \in {finish(st.content) :
                         st \in {ScanLines(Split(raw, "\n"), 1, start)}} : TRUE

(***************************************************************************)
(* json.loads, for the JSON texts of the input space: one object whose     *)
(* values are strings, arrays of strings, null or unsigned integers,       *)
(* without escape sequences.  Everything else of these texts is a          *)
(* JSONDecodeError, as in the json module.                                 *)
(***************************************************************************)
Quote == "\""
JsonPunct == {"{", "}", "[", "]", ":", ","}
Digits == <<"0", "1", "2", "3", "4", "5", "6", "7", "8", "9">>

\* The positions of the double quotes; without escapes they open and close
\* the strings alternately.
QuotePositions(s) == Sorted({i \in 1..Len(s) : s[i] = Quote})

QuotesBefore(s, i) == Cardinality({j \in 1..(i - 1) : s[j] = Quote})

\* Position i lies outside every string literal and is not a quote.
Outside(s, i) == s[i] # Quote /\ QuotesBefore(s, i) % 2 = 0

\* Position i lies strictly inside a string literal.
Inside(s, i) == s[i] # Quote /\ QuotesBefore(s, i) % 2 = 1

\* A character of a bare literal (null, a number, or garbage).
LiteralChar(s, i) == Outside(s, i) /\ ~IsSpace(s[i]) /\ s[i] \notin JsonPunct

\* Unterminated string, or a control character inside a string.
LexError(s) ==
    \/ Cardinality({i \in 1..Len(s) : s[i] = Quote}) % 2 = 1
    \/ \E i \in 1..Len(s) : Inside(s, i) /\ s[i] \in {"\n", "\t", "\r"}

\* The token starting at position i.
TokenAt(s, i) ==
    IF s[i] = Quote
    THEN [t |-> "str",
          v |-> SubSeq(s, i + 1,
                       SetMin({j \in (i + 1)..Len(s) : s[j] = Quote}) - 1)]
    ELSE IF s[i] \in JsonPunct
    THEN [t |-> "punct", v |-> <<s[i]>>]
    ELSE [t |-> "lit",
          v |-> SubSeq(s, i,
                       SetMin({j \in i..Len(s) :
                                  j = Len(s) \/ ~LiteralChar(s, j + 1)}))]

\* The tokens of a text without lexical errors, in text order.
Tokens(s) ==
    LET starts == {i \in 1..Len(s) :
                      \/ s[i] = Quote /\ QuotesBefore(s, i) % 2 = 0
                      \/ Outside(s, i) /\ s[i] \in JsonPunct
                      \/ LiteralChar(s, i) /\ (i = 1 \/ ~LiteralChar(s, i - 1))}
        order == Sorted(starts)
    IN  [k \in 1..Len(order) |-> TokenAt(s, order[k])]

IsPunct(toks, i, c) ==
    i <= Len(toks) /\ toks[i].t = "punct" /\ toks[i].v = <<c>>

IsStrTok(toks, i) == i <= Len(toks) /\ toks[i].t = "str"

DigitValue(c) == (CHOOSE i \in 1..10 : Digits[i] = c) - 1

RECURSIVE NumberValue(_)
NumberValue(ds) ==
    IF ds = <<>> THEN 0
    ELSE 10 * NumberValue(SubSeq(ds, 1, Len(ds) - 1)) + DigitValue(ds[Len(ds)])

\* An unsigned integer literal: digits, with no leading zero.
IsNumber(v) ==
    /\ v # <<>>
    /\ \A i \in 1..Len(v) : \E d \in 1..10 : Digits[d] = v[i]
    /\ (Len(v) > 1 => v[1] # "0")

JsonFail == [ok |-> FALSE, value |-> <<>>, next |-> 0]
JsonOk(value, next) == [ok |-> TRUE, value |-> value, next |-> next]

\* The elements of an array after "[" or after a comma: strings separated by
\* commas, closed by "]".
RECURSIVE ParseElements(_, _, _)
ParseElements(toks, i, acc) ==
    IF ~IsStrTok(toks, i) THEN JsonFail
    ELSE IF IsPunct(toks, i + 1, "]")
    THEN JsonOk(PyList(Append(acc, toks[i].v)), i + 2)
    ELSE IF IsPunct(toks, i + 1, ",")
    THEN ParseElements(toks, i + 2, Append(acc, toks[i].v))
    ELSE JsonFail

\* One value starting at token i.
ParseValue(toks, i) ==
    IF i > Len(toks) THEN JsonFail
    ELSE IF toks[i].t = "str" THEN JsonOk(PyStr(toks[i].v), i + 1)
    ELSE IF toks[i].t = "lit"
    THEN IF toks[i].v = <<"n", "u", "l", "l">> THEN JsonOk(PyNone, i + 1)
         ELSE IF IsNumber(toks[i].v) THEN JsonOk(PyInt(NumberValue(toks[i].v)), i + 1)
         ELSE JsonFail
    ELSE IF IsPunct(toks, i, "[")
    THEN IF IsPunct(toks, i + 1, "]") THEN JsonOk(PyList(<<>>), i + 2)
         ELSE ParseElements(toks, i + 1, <<>>)
    ELSE JsonFail

\* The members of an object from the key at token i on; a repeated key keeps
\* its last value; nothing may follow the closing brace.
RECURSIVE ParseMembers(_, _, _)
ParseMembers(toks, i, d) ==
    IF ~(IsStrTok(toks, i) /\ IsPunct(toks, i + 1, ":")) THEN JsonFail
    ELSE LET val == ParseValue(toks, i + 2)
         IN  IF ~val.ok THEN JsonFail
             ELSE LET d2 == SetItem(d, toks[i].v, val.value)
                  IN  IF IsPunct(toks, val.next, "}")
                      THEN IF val.next = Len(toks)
                           THEN JsonOk(d2, val.next + 1) ELSE JsonFail
                      ELSE IF IsPunct(toks, val.next, ",")
                      THEN ParseMembers(toks, val.next + 1, d2)
                      ELSE JsonFail

\* json.loads(s) for a text whose first non-blank character is "{".
json_loads(s) ==
    IF LexError(s) THEN JsonFail
    ELSE LET toks == Tokens(s)
         IN  IF ~IsPunct(toks, 1, "{") THEN JsonFail
             ELSE IF IsPunct(toks, 2, "}")
             THEN IF Len(toks) = 2 THEN JsonOk(<<>>, 3) ELSE JsonFail
             ELSE ParseMembers(toks, 2, <<>>)

(***************************************************************************)
(* ContentGeneratorService._parse_generated_content                        *)
(***************************************************************************)
\* Mutant of ParseBody: malformed JSON falls back to the line scan.
ParseBodyFallback(raw) ==
    IF StartsWith(Strip(raw), <<"{">>) /\ json_loads(raw).ok
    THEN Return(json_loads(raw).value)
    ELSE Return(parse_text(raw))

\* The body of the try block: the JSON path returns json.loads(raw_content)
\* as it is; the text path returns the scanned dict.
ParseBody(raw) ==
    IF StartsWith(Strip(raw), <<"{">>)
    THEN LET r == json_loads(raw)
         IN  IF r.ok THEN Return(r.value)
             ELSE Raise("JSONDecodeError", <<"E", "x", "p", "e", "c", "t", "i", "n", "g", " ", "v", "a", "l", "u", "e">>)
    ELSE Return(parse_text(raw))

\* Mutant of parse_generated_content: the except clause is missing.
parse_generated_content_uncaught(raw) == ParseBody(raw)

\* except Exception: raise ContentGenerationError("Failed to parse generated content")
parse_generated_content(raw) ==
    LET r == ParseBody(raw)
    IN  IF r.kind = "raise"
        THEN Raise("ContentGenerationError", <<"F", "a", "i", "l", "e", "d", " ", "t", "o", " ", "p", "a", "r", "s", "e", " ", "g", "e", "n", "e", "r", "a", "t", "e", "d", " ", "c", "o", "n", "t", "e", "n", "t">>)
        ELSE r

(***************************************************************************)
(* MusicService (app/services/music_service.py).  Names, URLs and          *)
(* platforms are only compared and copied, so they are plain strings; the  *)
(* tone is searched for substrings, so it is a character sequence.         *)
(***************************************************************************)
\* _is_suitable_track: duration_limits.get(platform, 90000)
MaxDuration(a_platform) ==
    CASE a_platform = "tiktok"    -> 60000
      [] a_platform = "instagram" -> 90000
      [] a_platform = "youtube"   -> 120000
      [] OTHER                  -> 90000

\* Mutant of is_suitable_track: the popularity test is missing.
is_suitable_track_any_popularity(track, a_platform) ==
    IF track.duration_ms > MaxDuration(a_platform) THEN FALSE
    ELSE IF track.preview_url \in {"", "None"} THEN FALSE
    ELSE TRUE

is_suitable_track(track, a_platform) ==
    IF track.duration_ms > MaxDuration(a_platform) THEN FALSE
    ELSE IF track.preview_url \in {"", "None"} THEN FALSE
    ELSE IF track.popularity < 20 THEN FALSE
    ELSE TRUE

estimate_energy_level(track) ==
    IF track.popularity > 70 THEN "high"
    ELSE IF track.popularity > 40 THEN "medium"
    ELSE "low"

\* The suggestion built from a suitable track.
TrackSuggestion(track, a_tone, a_platform) ==
    [name |-> track.name,
     artist |-> track.artist,
     spotify_url |-> track.spotify_url,
     preview_url |-> track.preview_url,
     duration_ms |-> track.duration_ms,
     popularity |-> track.popularity,
     energy_level |-> estimate_energy_level(track),
     platform_suitable |-> a_platform,
     tone_match |-> a_tone]

\* fallback_suggestions[0]
GenericSuggestion(a_tone, a_platform) ==
    [name |-> "Upbeat Background Track",
     artist |-> "Generic Artist",
     spotify_url |-> "",
     preview_url |-> "",
     duration_ms |-> 60000,
     popularity |-> 50,
     energy_level |-> "medium",
     platform_suitable |-> a_platform,
     tone_match |-> a_tone,
     note |-> "Spotify API not available - generic suggestion"]

\* tone_suggestions, in the order of the dict.
ToneKeys == <<<<"e", "n", "e", "r", "g", "e", "t", "i", "c">>, <<"c", "a", "l", "m">>, <<"h", "a", "p", "p", "y">>>>

ToneSuggestions ==
    << << [name |-> "High Energy Beat", energy_level |-> "high"],
          [name |-> "Pump Up Track", energy_level |-> "high"] >>,
       << [name |-> "Peaceful Ambient", energy_level |-> "low"],
          [name |-> "Gentle Background", energy_level |-> "low"] >>,
       << [name |-> "Joyful Melody", energy_level |-> "medium"],
          [name |-> "Uplifting Tune", energy_level |-> "medium"] >> >>

\* base_suggestion = fallback_suggestions[0].copy(); base_suggestion.update(s)
Updated(base, upd) ==
    [base EXCEPT !.name = upd.name, !.energy_level = upd.energy_level]

\* Mutant of get_fallback_suggestions: every matching tone key adds its entries
\* (the break is missing) and the [:3] slice is dropped.
get_fallback_suggestions_all(a_tone, a_platform) ==
    LET base == GenericSuggestion(a_tone, a_platform)
        hits == SelectSeq(<<1, 2, 3>>, LAMBDA k : Contains(Lower(a_tone), ToneKeys[k]))
    IN  <<base>> \o Flatten([i \in 1..Len(hits) |->
                                [j \in 1..2 |-> Updated(base, ToneSuggestions[hits[i]][j])]])

\* _get_fallback_suggestions: the generic entry, then the entries of the first
\* tone key found in tone.lower(); at most three entries are returned.
get_fallback_suggestions(a_tone, a_platform) ==
    LET base == GenericSuggestion(a_tone, a_platform)
        hits == {k \in 1..Len(ToneKeys) : Contains(Lower(a_tone), ToneKeys[k])}
        all == IF hits = {} THEN <<base>>
               ELSE <<base>> \o [j \in 1..2 |->
                                    Updated(base, ToneSuggestions[SetMin(hits)][j])]
    IN  SubSeq(all, 1, Min(3, Len(all)))

\* for track in results['tracks']['items']: stop at limit suggestions, keep the
\* suitable tracks.
RECURSIVE SuggestionLoop(_, _, _, _, _, _)
SuggestionLoop(items, i, found, a_tone, a_platform, a_limit) ==
    IF i > Len(items) \/ Len(found) >= a_limit THEN found
    ELSE IF is_suitable_track(items[i], a_platform)
    THEN SuggestionLoop(items, i + 1,
                        Append(found, TrackSuggestion(items[i], a_tone, a_platform)),
                        a_tone, a_platform, a_limit)
    ELSE SuggestionLoop(items, i + 1, found, a_tone, a_platform, a_limit)

\* The loop raises KeyError when it builds the suggestion of a suitable track
\* that lacks a key the suggestion reads (here 'artists'); the loop gets to
\* items[i] unless limit suitable tracks were found before it.
LoopRaises(items, a_platform, a_limit) ==
    \E i \in 1..Len(items) :
        /\ is_suitable_track(items[i], a_platform)
        /\ "artist" \notin DOMAIN items[i]
        /\ Cardinality({j \in 1..(i - 1) : is_suitable_track(items[j], a_platform)})
              < a_limit

\* Mutant of get_music_suggestions: an empty selection is returned as it is.
get_music_suggestions_unchecked(client, reply, a_tone, a_platform, a_limit) ==
    IF ~client THEN get_fallback_suggestions(a_tone, a_platform)
    ELSE IF reply.kind = "raise" THEN get_fallback_suggestions(a_tone, a_platform)
    ELSE IF LoopRaises(reply.items, a_platform, a_limit)
    THEN get_fallback_suggestions(a_tone, a_platform)
    ELSE SuggestionLoop(reply.items, 1, <<>>, a_tone, a_platform, a_limit)

\* get_music_suggestions.  client: whether self.spotify is set; reply: what
\* self.spotify.search does when it is called (it raises, or returns tracks).
\* The search query and the audio features are computed from the arguments
\* and change nothing else.  Every exception of the try block ends in the
\* except clause, which returns the fallback list.
get_music_suggestions(client, reply, a_tone, a_platform, a_limit) ==
    IF ~client THEN get_fallback_suggestions(a_tone, a_platform)
    ELSE IF reply.kind = "raise" THEN get_fallback_suggestions(a_tone, a_platform)
    ELSE IF LoopRaises(reply.items, a_platform, a_limit)
    THEN get_fallback_suggestions(a_tone, a_platform)
    ELSE LET found == SuggestionLoop(reply.items, 1, <<>>, a_tone, a_platform, a_limit)
         IN  IF found = <<>> THEN get_fallback_suggestions(a_tone, a_platform)
             ELSE found

(***************************************************************************)
(* The values the variables of an operation hold while another operation   *)
(* is the one under study.                                                 *)
(***************************************************************************)
NoOutcome == [kind |-> "none"]

IdleTimestamps == script = <<>> /\ timestamps = <<>>
IdleScore == content = <<>> /\ quality_score = NoOutcome
IdleParse == raw_content = <<>> /\ parsed = NoOutcome
IdleMusic ==
    /\ spotify = FALSE
    /\ tone = <<>>
    /\ platform = ""
    /\ limit = 0
    /\ suggestions = <<>>
    /\ search_calls = 0
    /\ catalog_reply = NoOutcome
IdleTemplates ==
    /\ files = <<>>
    /\ cache = <<>>
    /\ tpl_call = NoOutcome
    /\ tpl_result = NoOutcome
    /\ first_returned = <<>>
    /\ tpl_calls = 0
    /\ file_changes = 0

IdleSession == memory = <<>> /\ calls = <<>>

IdleRoute ==
    /\ request_data = NoOutcome
    /\ handler = NoOutcome
    /\ database = NoOutcome
    /\ response = NoOutcome

IdleRateLimit ==
    /\ requests = <<>>
    /\ clock = 0
    /\ accepted = <<>>
    /\ rl_response = NoOutcome

IdleGenerate ==
    /\ include_music = FALSE
    /\ spotify_client_id = FALSE
    /\ wandb_api_key = FALSE
    /\ llm_result = NoOutcome
    /\ llm_calls = 0
    /\ music_result = NoOutcome
    /\ stages = <<>>
    /\ result = NoOutcome

(***************************************************************************)
(* Specification SpecTimestamps: _generate_timestamps on every script      *)
(* built from at most MaxScriptChunks chunks.  The chunk lengths put       *)
(* sentence lengths on both sides of the 40/60/80 character thresholds.    *)
(***************************************************************************)
ScriptChunks ==
    { <<".">>, <<" ">>, <<"x">>, Rep("x", 19), Rep("x", 20), Rep("x", 60), Rep("x", 80) }

Scripts == { Flatten(cs) : cs \in SeqsUpTo(ScriptChunks, MaxScriptChunks) }

InitTimestamps ==
    /\ IdleRoute
    /\ IdleRateLimit
    /\ pc = "ts_call"
    /\ script \in Scripts
    /\ timestamps = <<>>
    /\ IdleScore
    /\ IdleParse
    /\ IdleMusic
    /\ IdleGenerate
    /\ IdleTemplates
    /\ IdleSession

GenerateTimestamps ==
    /\ pc = "ts_call"
    /\ timestamps' = generate_timestamps(script)
    /\ pc' = "ts_return"
    /\ UNCHANGED <<route_vars, rl_vars, tpl_vars, sess_vars, script, score_vars, parse_vars, music_vars, gc_vars>>

NextTimestamps == GenerateTimestamps

SpecTimestamps == InitTimestamps /\ [][NextTimestamps]_vars

\* The '.'-delimited fragments of the script that hold a non-blank character.
NonBlankFragments(s) ==
    SelectSeq(Split(s, "."), LAMBDA f : \E i \in 1..Len(f) : ~IsSpace(f[i]))

\* C1: _generate_timestamps returns exactly one segment per non-empty trimmed
\* '.'-delimited fragment of the script, in script order; the first segment
\* starts at 0 and each segment ends where the next one starts; a script with
\* no non-empty fragment gives the empty list.
C1_SegmentsContiguous ==
    pc = "ts_return" =>
        LET frs == NonBlankFragments(script)
        IN  /\ Len(timestamps) = Len(frs)
            /\ \A i \in 1..Len(timestamps) : timestamps[i].text = Strip(frs[i])
            /\ (timestamps # <<>> => timestamps[1].start = 0)
            /\ \A i \in 1..(Len(timestamps) - 1) :
                   timestamps[i].end = timestamps[i + 1].start

\* A script with discarded empty fragments and at least two segments.
C1_Witness ==
    /\ pc = "ts_return"
    /\ Len(timestamps) >= 2
    /\ Len(Split(script, ".")) > Len(timestamps)

Absent == [t |-> "absent", v |-> <<>>]

Segment(start, end, text) ==
    [start |-> start, end |-> end, text |-> text, type |-> "narration"]

\* The dict holding the given fields, without those that are Absent.
MakeContent(hook, storyline, scr, hashtags, stamps) ==
    LET all == [k \in {k_hook, k_storyline, k_script, k_hashtags, k_timestamps} |->
                   CASE k = k_hook      -> hook
                     [] k = k_storyline -> storyline
                     [] k = k_script    -> scr
                     [] k = k_hashtags  -> hashtags
                     [] OTHER           -> stamps]
        keys == {k \in DOMAIN all : all[k].t # "absent"}
    IN  [k \in keys |-> all[k]]

ScoreInputs ==
    { MakeContent(hook, storyline, scr, hashtags, stamps) :
        hook \in {Absent, PyNone, PyStr(<<>>), PyStr(Rep("h", 10)), PyStr(Rep("h", 11))},
        storyline \in {Absent, PyStr(Rep("s", 20)), PyStr(Rep("s", 21))},
        scr \in {Absent, PyStr(Rep("x", 50)), PyStr(Rep("x", 51))},
        hashtags \in {Absent, PyList(<<>>), PyList(Rep(<<"t", "a", "g">>, 2)),
                      PyList(Rep(<<"t", "a", "g">>, 3)), PyList(Rep(<<"t", "a", "g">>, 4))},
        stamps \in {Absent, PyList(<<>>), PyList(<<Segment(0, 5, <<"t", "e", "s", "t">>)>>)} }

InitScore ==
    /\ IdleRoute
    /\ IdleRateLimit
    /\ pc = "score_call"
    /\ content \in ScoreInputs
    /\ quality_score = NoOutcome
    /\ IdleTimestamps
    /\ IdleParse
    /\ IdleMusic
    /\ IdleGenerate
    /\ IdleTemplates
    /\ IdleSession

CalculateQualityScore ==
    /\ pc = "score_call"
    /\ quality_score' = calculate_quality_score(content)
    /\ pc' = "score_return"
    /\ UNCHANGED <<route_vars, rl_vars, tpl_vars, sess_vars, content, ts_vars, parse_vars, music_vars, gc_vars>>

NextScore == CalculateQualityScore

SpecScore == InitScore /\ [][NextScore]_vars

\* len(content[key]) of the claim, 0 for a field that is absent or None.
FieldLen(c, key) ==
    IF key \in DOMAIN c /\ c[key].t \in {"str", "list"} THEN Len(c[key].v) ELSE 0

Points(cond, n) == IF cond THEN n ELSE 0

TextLines ==
    { <<" ", " ", "H", "O", "O", "K", ":", " ", "X", " ">>, <<"S", "t", "o", "r", "y", "l", "i", "n", "e", ":", " ", "S">>, <<"S", "C", "R", "I", "P", "T", ":", " ", "Y", ".", " ", "Z", ".">>, <<"s", "c", "r", "i", "p", "t", ":">>,
      <<"H", "A", "S", "H", "T", "A", "G", "S", ":", " ", "#", "a", " ", "#", "B">>, <<"a", "n", "d", ":", " ", "m", "o", "r", "e">>, <<"#", "A", " ", "x", " ", "#", "#", "d", "#">>, <<"x", " ", "#", "e">>, <<>>,
      <<"s", "e", "e", " ", "h", "a", "s", "h", "t", "a", "g", "s", ":", " ", "#", "z">>, <<"S", "c", "r", "i", "p", "t", ":", " ", "t", "h", "e", " ", "h", "o", "o", "k", ":", " ", "Q">> }

\* "\n".join(lines)
RECURSIVE JoinWith(_, _)
JoinWith(parts, sep) ==
    IF parts = <<>> THEN <<>>
    ELSE IF Len(parts) = 1 THEN parts[1]
    ELSE parts[1] \o sep \o JoinWith(Tail(parts), sep)

TextInputs == { JoinWith(ls, <<"\n">>) : ls \in SeqsUpTo(TextLines, MaxLines) }

JsonMembers ==
    { <<"\"", "h", "o", "o", "k", "\"", ":", "\"", "H", "\"">>, <<"\"", "s", "c", "r", "i", "p", "t", "\"", ":", " ", "\"", "A", ".", " ", "B", ".", "\"">>, <<"\"", "h", "a", "s", "h", "t", "a", "g", "s", "\"", ":", "[", "\"", "#", "a", "\"", ",", "\"", "B", "\"", "]">>,
      <<"\"", "s", "t", "o", "r", "y", "l", "i", "n", "e", "\"", ":", "n", "u", "l", "l">>, <<"\"", "t", "i", "m", "e", "s", "t", "a", "m", "p", "s", "\"", ":", "[", "]">>, <<"\"", "h", "o", "o", "k", "\"", ":", "7">>,
      <<"\"", "e", "x", "t", "r", "a", "\"", ":", "\"", "e", "\"">> }

JsonHeads == { <<"{">>, <<" ", "\n", "{", " ">> }
JsonTails == { <<"}">>, <<"}", "\n">>, <<>>, <<",", "}">>, <<"}", " ", "x">> }

JsonInputs ==
    { head \o JoinWith(ms, <<",">>) \o tail :
        head \in JsonHeads, ms \in SeqsUpTo(JsonMembers, MaxMembers), tail \in JsonTails }

RawContents == TextInputs \cup JsonInputs

InitParse ==
    /\ IdleRoute
    /\ IdleRateLimit
    /\ pc = "parse_call"
    /\ raw_content \in RawContents
    /\ parsed = NoOutcome
    /\ IdleTimestamps
    /\ IdleScore
    /\ IdleMusic
    /\ IdleGenerate
    /\ IdleTemplates
    /\ IdleSession

ParseGeneratedContent ==
    /\ pc = "parse_call"
    /\ parsed' = parse_generated_content(raw_content)
    /\ pc' = "parse_return"
    /\ UNCHANGED <<route_vars, rl_vars, tpl_vars, sess_vars, raw_content, ts_vars, score_vars, music_vars, gc_vars>>

NextParse == ParseGeneratedContent

SpecParse == InitParse /\ [][NextParse]_vars

\* The non-empty stripped lines of a text.
NonEmptyLines(raw) ==
    LET ls == Split(raw, "\n")
    IN  SelectSeq([i \in 1..Len(ls) |-> Strip(ls[i])], LAMBDA l : l # <<>>)

FieldKeys == {k_hook, k_storyline, k_script, k_hashtags}
LabelOf(k) == k \o <<":">>
HasLabel(line) == \E k \in FieldKeys : Contains(Lower(line), LabelOf(k))

\* The line begins with the label of k (in any letter case) and holds no
\* label after it.
IsLabelLine(line, k) ==
    /\ StartsWith(Lower(line), LabelOf(k))
    /\ ~HasLabel(SubSeq(line, Len(LabelOf(k)) + 1, Len(line)))

IsAnyLabelLine(line) == \E k \in FieldKeys : IsLabelLine(line, k)

\* Every label stands at the start of a line of its own, at most once.
OwnLineLabels(raw) ==
    LET ls == NonEmptyLines(raw)
    IN  /\ \A i \in 1..Len(ls) : HasLabel(ls[i]) => IsAnyLabelLine(ls[i])
        /\ \A k \in FieldKeys :
              Cardinality({i \in 1..Len(ls) : IsLabelLine(ls[i], k)}) <= 1

OnTextPath(raw) == ~StartsWith(Strip(raw), <<"{">>)

\* The text after the colon of k's label line, then the unlabelled lines that
\* follow it up to the next label line; empty when k has no label line.
SectionParts(raw, k) ==
    LET ls == NonEmptyLines(raw)
        at == {i \in 1..Len(ls) : IsLabelLine(ls[i], k)}
    IN  IF at = {} THEN <<>>
        ELSE LET p == SetMin(at)
                 later == {q \in (p + 1)..Len(ls) : IsAnyLabelLine(ls[q])}
                 stop == IF later = {} THEN Len(ls) + 1 ELSE SetMin(later)
             IN  <<Strip(SubSeq(ls[p], Len(LabelOf(k)) + 1, Len(ls[p])))>>
                 \o SubSeq(ls, p + 1, stop - 1)

HashTokens(text) == SelectSeq(SplitWs(text), LAMBDA tok : StartsWith(tok, <<"#">>))

\* The fields other than hashtags, as C5 states them.
C5_TextFields ==
    /\ parsed.kind = "return"
    /\ \A k \in {k_hook, k_storyline, k_script} :
          parsed.value[k] = PyStr(JoinWith(SectionParts(raw_content, k), <<" ">>))
    /\ parsed.value[k_timestamps].t = "list"
    /\ Len(parsed.value[k_timestamps].v)
          = Len(NonBlankFragments(parsed.value[k_script].v))
    /\ \A i \in 1..Len(parsed.value[k_timestamps].v) :
          parsed.value[k_timestamps].v[i].text
             = Strip(NonBlankFragments(parsed.value[k_script].v)[i])

C6_FieldsAlwaysPresent ==
    (pc = "parse_return" /\ parsed.kind = "return") =>
        /\ \A k \in {k_hook, k_storyline, k_script} :
              k \in DOMAIN parsed.value /\ parsed.value[k].t = "str"
        /\ \A k \in {k_hashtags, k_timestamps} :
              k \in DOMAIN parsed.value /\ parsed.value[k].t = "list"

\* C8: on the text path every input gives a record, whose field is empty for
\* every section without a label line; and whatever the input, the call either
\* returns a record or raises ContentGenerationError.
C8_ParseTotal ==
    pc = "parse_return" =>
        /\ \/ parsed.kind = "return"
           \/ parsed.kind = "raise" /\ parsed.type = "ContentGenerationError"
        /\ OnTextPath(raw_content) =>
              /\ parsed.kind = "return"
              /\ DOMAIN parsed.value = FieldKeys \cup {k_timestamps}
              /\ \A k \in FieldKeys :
                    (\A i \in 1..Len(NonEmptyLines(raw_content)) :
                        ~Contains(Lower(NonEmptyLines(raw_content)[i]), LabelOf(k)))
                    => parsed.value[k].v = <<>>
              /\ (parsed.value[k_script].v = <<>> => parsed.value[k_timestamps].v = <<>>)

\* A text with a hook and continuation lines but no storyline, script or
\* hashtags section.
C8_Witness ==
    /\ pc = "parse_return"
    /\ OnTextPath(raw_content)
    /\ parsed.kind = "return"
    /\ parsed.value[k_hook].v # <<>>
    /\ Len(NonEmptyLines(raw_content)) >= 2
    /\ parsed.value[k_storyline].v = <<>>
    /\ parsed.value[k_script].v = <<>>
    /\ parsed.value[k_hashtags].v = <<>>
    /\ parsed.value[k_timestamps].v = <<>>

(***************************************************************************)
(* Specification SpecMusic: get_music_suggestions without and with a       *)
(* catalog client, the catalog answering with at most MaxTracks tracks or  *)
(* raising.                                                                *)
(***************************************************************************)
Tones ==
    { <<"e", "n", "e", "r", "g", "e", "t", "i", "c">>, <<"C", "A", "L", "M", " ", "a", "n", "d", " ", "h", "a", "p", "p", "y">>, <<"H", "a", "p", "p", "y", " ", "E", "n", "e", "r", "g", "e", "t", "i", "c", " ", "v", "i", "b", "e", "s">>, <<"u", "n", "h", "a", "p", "p", "y">>,
      <<"c", "a", "s", "u", "a", "l">>, <<>> }

Platforms == {"tiktok", "instagram", "youtube", "facebook"}

Track(name, duration_ms, preview_url, popularity) ==
    [name |-> name, artist |-> "Artist", spotify_url |-> "https://open.spotify.com",
     preview_url |-> preview_url, duration_ms |-> duration_ms, popularity |-> popularity]

\* A track of the catalog's answer that lacks the 'artists' key.
NoArtists(track) == [f \in DOMAIN track \ {"artist"} |-> track[f]]

\* preview_url "None" stands for a track whose preview_url is None.
Tracks ==
    { Track("short", 60000, "https://p.scdn.co/short", 71),
      Track("long", 90001, "https://p.scdn.co/long", 20),
      Track("nopreview", 60000, "None", 50),
      Track("unpopular", 30000, "https://p.scdn.co/unpopular", 19),
      NoArtists(Track("noartists", 45000, "https://p.scdn.co/noartists", 41)) }

CatalogReplies ==
    {[kind |-> "raise"]}
    \cup {[kind |-> "return", items |-> ts] : ts \in SeqsUpTo(Tracks, MaxTracks)}

InitMusic ==
    /\ IdleRoute
    /\ IdleRateLimit
    /\ pc = "music_call"
    /\ spotify \in BOOLEAN
    /\ tone \in Tones
    /\ platform \in Platforms
    /\ limit \in 0..MaxLimit
    /\ suggestions = <<>>
    /\ search_calls = 0
    /\ catalog_reply = NoOutcome
    /\ IdleTimestamps
    /\ IdleScore
    /\ IdleParse
    /\ IdleGenerate
    /\ IdleTemplates
    /\ IdleSession

\* if not self.spotify: return self._get_fallback_suggestions(...)
GetMusicSuggestionsNoClient ==
    /\ pc = "music_call"
    /\ ~spotify
    /\ suggestions' = get_music_suggestions(FALSE, [kind |-> "raise"], tone, platform, limit)
    /\ pc' = "music_return"
    /\ UNCHANGED <<route_vars, rl_vars, tpl_vars, sess_vars, spotify, tone, platform, limit, search_calls, catalog_reply,
                   ts_vars, score_vars, parse_vars, gc_vars>>

\* The catalog path: one call of self.spotify.search, which raises or answers.
GetMusicSuggestionsCatalog ==
    /\ pc = "music_call"
    /\ spotify
    /\ \E reply \in CatalogReplies :
          /\ catalog_reply' = reply
          /\ suggestions' = get_music_suggestions(TRUE, reply, tone, platform, limit)
    /\ search_calls' = search_calls + 1
    /\ pc' = "music_return"
    /\ UNCHANGED <<route_vars, rl_vars, tpl_vars, sess_vars, spotify, tone, platform, limit, ts_vars, score_vars, parse_vars,
                   gc_vars>>

NextMusic == GetMusicSuggestionsNoClient \/ GetMusicSuggestionsCatalog

SpecMusic == InitMusic /\ [][NextMusic]_vars

\* C10: without a catalog client get_music_suggestions returns 1 to 3
\* suggestions: the generic entry, whose platform_suitable and tone_match are
\* the platform and tone arguments, then the two entries of the first of the
\* keys energetic, calm, happy that occurs in the lower-cased tone, if any; the
\* catalog is not called.
C10_FallbackWithoutClient ==
    (pc = "music_return" /\ ~spotify) =>
        LET low == Lower(tone)
            names == IF Contains(low, <<"e", "n", "e", "r", "g", "e", "t", "i", "c">>)
                     THEN <<"High Energy Beat", "Pump Up Track">>
                     ELSE IF Contains(low, <<"c", "a", "l", "m">>)
                     THEN <<"Peaceful Ambient", "Gentle Background">>
                     ELSE IF Contains(low, <<"h", "a", "p", "p", "y">>)
                     THEN <<"Joyful Melody", "Uplifting Tune">>
                     ELSE <<>>
        IN  /\ Len(suggestions) \in 1..3
            /\ Len(suggestions) = 1 + Len(names)
            /\ suggestions[1].name = "Upbeat Background Track"
            /\ suggestions[1].platform_suitable = platform
            /\ suggestions[1].tone_match = tone
            /\ \A i \in 1..Len(names) : suggestions[i + 1].name = names[i]
            /\ search_calls = 0

\* No client, and a tone naming two keys: the entries of "energetic", the
\* first key of the table, follow the generic entry.
C10_Witness ==
    /\ pc = "music_return"
    /\ ~spotify
    /\ tone = <<"H", "a", "p", "p", "y", " ", "E", "n", "e", "r", "g", "e", "t", "i", "c", " ", "v", "i", "b", "e", "s">>
    /\ Len(suggestions) = 3
    /\ suggestions[2].name = "High Energy Beat"
    /\ suggestions[1].tone_match = tone
    /\ search_calls = 0

\* The call is over and went to the catalog.
CatalogAsked == pc = "music_return" /\ spotify /\ search_calls = 1

\* The platform maximum of the track duration, in milliseconds.
PlatformMax(p) ==
    IF p = "tiktok" THEN 60000
    ELSE IF p = "instagram" THEN 90000
    ELSE IF p = "youtube" THEN 120000
    ELSE 90000

\* The track passes the suitability filter.
Passes(track, p) ==
    /\ track.duration_ms <= PlatformMax(p)
    /\ track.preview_url \notin {"", "None"}
    /\ track.popularity >= 20

\* The tracks of the catalog's answer that pass, in the catalog's order.
PassingTracks == SelectSeq(catalog_reply.items, LAMBDA t : Passes(t, platform))

\* C11: get_music_suggestions never returns an empty list, and when the
\* catalog search raises or no track of its answer passes the suitability
\* filter, the list returned is the deterministic fallback list.
C11_NeverEmptyFallback ==
    pc = "music_return" =>
        /\ suggestions # <<>>
        /\ (CatalogAsked /\ (catalog_reply.kind = "raise" \/ PassingTracks = <<>>))
              => suggestions = get_fallback_suggestions(tone, platform)

\* The catalog answered with two tracks or more, none of which passes, and
\* the generic fallback entry came back.
C11_Witness ==
    /\ CatalogAsked
    /\ catalog_reply.kind = "return"
    /\ Len(catalog_reply.items) >= 2
    /\ PassingTracks = <<>>
    /\ suggestions[1].name = "Upbeat Background Track"

\* The suggestion is the one of the track: same name, duration, preview and
\* popularity.
FromTrack(sug, track) ==
    /\ sug.name = track.name
    /\ sug.duration_ms = track.duration_ms
    /\ sug.preview_url = track.preview_url
    /\ sug.popularity = track.popularity

\* The catalog answered and at least one track of the answer passes.
SomeTrackPasses ==
    CatalogAsked /\ catalog_reply.kind = "return" /\ PassingTracks # <<>>

\* The suggestions are the first passing tracks in the catalog's order, at
\* most limit of them.
FirstPassingTracks ==
    /\ Len(suggestions) <= limit
    /\ Len(suggestions) <= Len(PassingTracks)
    /\ \A i \in 1..Len(suggestions) :
          /\ FromTrack(suggestions[i], PassingTracks[i])
          /\ suggestions[i].duration_ms <= PlatformMax(platform)
          /\ suggestions[i].preview_url # ""
          /\ suggestions[i].popularity >= 20

cache_key_kind_only(template_type, a_platform) == template_type

\* cache_key = f"{template_type}_{platform}"
cache_key(template_type, a_platform) == template_type \o <<"_">> \o a_platform

\* f"{template_type}_{platform}.txt", the file's name under templates_dir
template_file(template_type, a_platform) ==
    template_type \o <<"_">> \o a_platform \o <<".", "t", "x", "t">>

\* A file of templates_dir: absent, present but failing to open or read,
\* or present with a text.
Missing == [exists |-> FALSE, readable |-> FALSE, text |-> ""]
Unreadable == [exists |-> TRUE, readable |-> FALSE, text |-> ""]
Stored(text) == [exists |-> TRUE, readable |-> TRUE, text |-> text]

\* os.path.exists(template_path)
Exists(fs, name) == name \in DOMAIN fs /\ fs[name].exists

\* _get_default_template; each built-in text stands for itself by its
\* first sentence.
get_default_template(template_type) ==
    CASE template_type = <<"c", "o", "n", "t", "e", "n", "t", "_", "g", "e", "n", "e", "r", "a", "t", "i", "o", "n">> ->
           "You are an expert social media content creator specializing in {platform} content."
      [] template_type = <<"h", "o", "o", "k", "_", "g", "e", "n", "e", "r", "a", "t", "i", "o", "n">> ->
           "Create 5 powerful hooks for a {platform} video about {topic} targeting {target_audience} with a {tone} tone."
      [] template_type = <<"h", "a", "s", "h", "t", "a", "g", "_", "g", "e", "n", "e", "r", "a", "t", "i", "o", "n">> ->
           "Generate strategic hashtags for a {platform} video about {topic}."
      [] OTHER ->
           "Generate content about {topic} for {platform} with {tone} tone targeting {target_audience}."

\* Mutant of TemplatePath: the general template is preferred.
TemplatePathGeneralFirst(fs, template_type, a_platform) ==
    IF Exists(fs, template_file(template_type, <<"g", "e", "n", "e", "r", "a", "l">>))
    THEN template_file(template_type, <<"g", "e", "n", "e", "r", "a", "l">>)
    ELSE template_file(template_type, a_platform)

\* The file get_template settles on: the pair's own if it exists, else the
\* kind's general one.
TemplatePath(fs, template_type, a_platform) ==
    IF Exists(fs, template_file(template_type, a_platform))
    THEN template_file(template_type, a_platform)
    ELSE template_file(template_type, <<"g", "e", "n", "e", "r", "a", "l">>)

\* The cache miss branch of get_template: the text read from the file, or
\* the default when the file is absent or reading it raises.
LoadTemplate(fs, template_type, a_platform) ==
    LET path == TemplatePath(fs, template_type, a_platform)
    IN  IF ~Exists(fs, path) THEN get_default_template(template_type)
        ELSE IF fs[path].readable THEN fs[path].text
        ELSE get_default_template(template_type)

\* The storage operations of the cache miss branch: os.path.exists once or
\* twice, then open() if the file exists.
StorageAccesses(fs, template_type, a_platform) ==
    1 + (IF Exists(fs, template_file(template_type, a_platform)) THEN 0 ELSE 1)
      + (IF Exists(fs, TemplatePath(fs, template_type, a_platform)) THEN 1 ELSE 0)

\* Mutant of get_template: the cache is never consulted.
get_template_uncached(fs, a_cache, template_type, a_platform) ==
    [template |-> LoadTemplate(fs, template_type, a_platform),
     cache |-> SetItem(a_cache, cache_key(template_type, a_platform),
                       LoadTemplate(fs, template_type, a_platform)),
     hit |-> FALSE,
     accesses |-> StorageAccesses(fs, template_type, a_platform)]

\* get_template: the returned text, the cache afterwards, whether the cache
\* answered and the number of storage operations made.
get_template(fs, a_cache, template_type, a_platform) ==
    IF cache_key(template_type, a_platform) \in DOMAIN a_cache
    THEN [template |-> a_cache[cache_key(template_type, a_platform)],
          cache |-> a_cache, hit |-> TRUE, accesses |-> 0]
    ELSE [template |-> LoadTemplate(fs, template_type, a_platform),
          cache |-> SetItem(a_cache, cache_key(template_type, a_platform),
                            LoadTemplate(fs, template_type, a_platform)),
          hit |-> FALSE,
          accesses |-> StorageAccesses(fs, template_type, a_platform)]

\* One get_template call on the loader, with the bookkeeping of what it was
\* asked, what it did and what each pair was given first.
Lookup(template_type, a_platform) ==
    \E r \in {get_template(files, cache, template_type, a_platform)} :
       /\ cache' = r.cache
       /\ tpl_result' = r.template
       /\ tpl_call' = [template_type |-> template_type, platform |-> a_platform,
                       hit |-> r.hit, accesses |-> r.accesses,
                       files |-> files, cache |-> cache,
                       asked_before |-> <<template_type, a_platform>> \in DOMAIN first_returned]
       /\ first_returned' =
             IF <<template_type, a_platform>> \in DOMAIN first_returned
             THEN first_returned
             ELSE SetItem(first_returned, <<template_type, a_platform>>, r.template)
       /\ tpl_calls' = tpl_calls + 1

(***************************************************************************)
(* Specification SpecTemplates: at most MaxTplCalls get_template calls on  *)
(* one loader, with at most MaxFileChanges changes to the files of         *)
(* templates_dir made in between.  One pair of the calls shares its cache  *)
(* key with another pair.                                                  *)
(***************************************************************************)
TemplateCalls ==
    { <<<<"c", "o", "n", "t", "e", "n", "t", "_", "g", "e", "n", "e", "r", "a", "t", "i", "o", "n">>, <<"t", "i", "k", "t", "o", "k">>>>, <<<<"c", "o", "n", "t", "e", "n", "t", "_", "g", "e", "n", "e", "r", "a", "t", "i", "o", "n">>, <<"g", "e", "n", "e", "r", "a", "l">>>>,
      <<<<"h", "o", "o", "k", "_", "g", "e", "n", "e", "r", "a", "t", "i", "o", "n">>, <<"t", "i", "k", "t", "o", "k">>>>, <<<<"h", "a", "s", "h", "t", "a", "g", "_", "g", "e", "n", "e", "r", "a", "t", "i", "o", "n">>, <<"t", "i", "k", "t", "o", "k">>>>,
      <<<<"c", "o", "n", "t", "e", "n", "t">>, <<"g", "e", "n", "e", "r", "a", "t", "i", "o", "n", "_", "t", "i", "k", "t", "o", "k">>>> }

StoredNames ==
    { template_file(<<"c", "o", "n", "t", "e", "n", "t", "_", "g", "e", "n", "e", "r", "a", "t", "i", "o", "n">>, <<"t", "i", "k", "t", "o", "k">>),
      template_file(<<"c", "o", "n", "t", "e", "n", "t", "_", "g", "e", "n", "e", "r", "a", "t", "i", "o", "n">>, <<"g", "e", "n", "e", "r", "a", "l">>),
      template_file(<<"c", "o", "n", "t", "e", "n", "t">>, <<"g", "e", "n", "e", "r", "a", "l">>) }

\* What a change leaves of a file: nothing, a file that cannot be read, an
\* empty file or a new text.
WrittenStates == {Missing, Unreadable, Stored(""), Stored("edited template")}

InitTemplates ==
    /\ IdleRoute
    /\ IdleRateLimit
    /\ pc = "tpl_idle"
    /\ files \in [StoredNames -> {Missing, Stored("stored template")}]
    /\ cache = <<>>
    /\ tpl_call = NoOutcome
    /\ tpl_result = NoOutcome
    /\ first_returned = <<>>
    /\ tpl_calls = 0
    /\ file_changes = 0
    /\ IdleTimestamps
    /\ IdleScore
    /\ IdleParse
    /\ IdleMusic
    /\ IdleGenerate
    /\ IdleSession

\* loader.get_template(template_type, platform)
GetTemplate ==
    /\ tpl_calls < MaxTplCalls
    /\ \E call \in TemplateCalls : Lookup(call[1], call[2])
    /\ UNCHANGED <<route_vars, rl_vars, files, file_changes, pc, sess_vars, ts_vars, score_vars, parse_vars,
                   music_vars, gc_vars>>

\* Somebody edits, empties, removes or locks a file of templates_dir.
ChangeFile ==
    /\ file_changes < MaxFileChanges
    /\ \E name \in StoredNames, st \in WrittenStates :
          /\ st # files[name]
          /\ files' = [files EXCEPT ![name] = st]
    /\ file_changes' = file_changes + 1
    /\ UNCHANGED <<route_vars, rl_vars, cache, tpl_call, tpl_result, first_returned, tpl_calls, pc, sess_vars,
                   ts_vars, score_vars, parse_vars, music_vars, gc_vars>>

NextTemplates == GetTemplate \/ ChangeFile

SpecTemplates == InitTemplates /\ [][NextTemplates]_vars

(***************************************************************************)
(* ContentGeneratorService.generate_content                                *)
(***************************************************************************)
\* settings.OPENAI_MODEL
OPENAI_MODEL == <<"g", "p", "t", "-", "4", "o">>

\* Mutant of WrapFailure: the message is str(e) alone.
WrapFailureNoPrefix(e) == Raise("ContentGenerationError", e.message)

\* except Exception as e:
\*     raise ContentGenerationError(f"Failed to generate content: {str(e)}")
WrapFailure(e) ==
    Raise("ContentGenerationError", <<"F", "a", "i", "l", "e", "d", " ", "t", "o", " ", "g", "e", "n", "e", "r", "a", "t", "e", " ", "c", "o", "n", "t", "e", "n", "t", ":", " ">> \o e.message)

\* The wandb.log call takes len() of content.get("script", "") and then of
\* content.get("hashtags", []).
WandbKeys == <<k_script, k_hashtags>>

WandbRaisesAt(c) ==
    {i \in DOMAIN WandbKeys :
        WandbKeys[i] \in DOMAIN c /\ ~HasLen(c[WandbKeys[i]])}

WandbLogRaises(c) == WandbRaisesAt(c) # {}

\* Mutant of AfterParse: an exception of the music step is not caught.
AfterParseMusicFatal(c, music, wandb) ==
    IF music.kind = "raise" THEN music
    ELSE LET c1 == IF music.kind = "none" THEN c
                   ELSE SetItem(c, k_music_suggestions, PyList(music.value))
             c2 == SetItem(c1, k_model_used, PyStr(OPENAI_MODEL))
             sc == calculate_quality_score(c2)
         IN  IF sc.kind = "raise" THEN sc
             ELSE LET c3 == SetItem(c2, k_quality_score, PyInt(sc.value))
                  IN  IF wandb /\ WandbLogRaises(c3)
                      THEN Raise("TypeError",
                                 NoLenMessage(c3[WandbKeys[SetMin(WandbRaisesAt(c3))]]))
                      ELSE Return(c3)

\* Lines 101-132 of the try block, after the parse returned the dict c.
\* music: NoOutcome when the music step is skipped, else the outcome of
\* "await self.music_service.get_music_suggestions(...)".
AfterParse(c, music, wandb) ==
    LET c1 == IF music.kind = "none" THEN c
              ELSE IF music.kind = "return"
              THEN SetItem(c, k_music_suggestions, PyList(music.value))
              ELSE SetItem(c, k_music_suggestions, PyList(<<>>))
        c2 == SetItem(c1, k_model_used, PyStr(OPENAI_MODEL))
        sc == calculate_quality_score(c2)
    IN  IF sc.kind = "raise" THEN sc
        ELSE LET c3 == SetItem(c2, k_quality_score, PyInt(sc.value))
             IN  IF wandb /\ WandbLogRaises(c3)
                 THEN Raise("TypeError",
                            NoLenMessage(c3[WandbKeys[SetMin(WandbRaisesAt(c3))]]))
                 ELSE Return(c3)

\* The outcome of generate_content once chain.arun returned: p is the outcome
\* of _parse_generated_content on the reply; then the optional music step, the
\* metadata, and the except clause around all.
AfterLlm(p, music, wandb) ==
    IF p.kind = "raise" THEN WrapFailure(p)
    ELSE LET r == AfterParse(p.value, music, wandb)
         IN  IF r.kind = "raise" THEN WrapFailure(r) ELSE r

\* Mutant of StagesAfterLlm: the quality score is computed before the music
\* step.
StagesAfterLlmScoreFirst(raw, p, music, wandb) ==
    <<"parse">>
    \o (IF p.kind = "return" /\ OnTextPath(raw) /\ p.value[k_script].v # <<>>
        THEN <<"timestamps">> ELSE <<>>)
    \o (IF p.kind = "raise" THEN <<>>
        ELSE <<"score">>
             \o (IF ScoreRaises(p.value) THEN <<>>
                 ELSE (IF music.kind = "none" THEN <<>> ELSE <<"music">>)
                      \o (IF ~wandb THEN <<"return">>
                          ELSE IF WandbLogRaises(p.value) THEN <<"log">>
                          ELSE <<"log", "return">>)))

\* The stages entered once chain.arun returned raw, in the order of the
\* statements: the parse (which synthesizes the timestamps itself, on the text
\* path, when the scanned script is not empty), the music step when it is
\* requested and enabled, the model identifier and the quality score, the
\* wandb log when it is configured, and the return statement.
StagesAfterLlm(raw, p, music, wandb) ==
    <<"parse">>
    \o (IF p.kind = "return" /\ OnTextPath(raw) /\ p.value[k_script].v # <<>>
        THEN <<"timestamps">> ELSE <<>>)
    \o (IF p.kind = "raise" THEN <<>>
        ELSE (IF music.kind = "none" THEN <<>> ELSE <<"music">>)
             \o <<"score">>
             \o (LET c1 == IF music.kind = "none" THEN p.value
                           ELSE SetItem(p.value, k_music_suggestions, PyList(<<>>))
                 IN  IF ScoreRaises(c1) THEN <<>>
                     ELSE IF ~wandb THEN <<"return">>
                     ELSE IF WandbLogRaises(c1) THEN <<"log">>
                     ELSE <<"log", "return">>))

(***************************************************************************)
(* Specification Spec: one generate_content call.  The coroutine is        *)
(* suspended only in "await chain.arun(...)": get_music_suggestions holds  *)
(* no await, so everything after the backend's reply runs in one step.     *)
(* The template lookup and the prompt assembly before the backend call do  *)
(* not change the state modelled here.                                     *)
(***************************************************************************)
ReplyLines ==
    { <<"H", "O", "O", "K", ":", " ">> \o Rep("h", 11), <<"S", "T", "O", "R", "Y", "L", "I", "N", "E", ":", " ">> \o Rep("s", 21),
      <<"S", "C", "R", "I", "P", "T", ":", " ", "Y", ".", " ", "Z", ".", " ">> \o Rep("x", 60) \o <<".">>, <<"H", "A", "S", "H", "T", "A", "G", "S", ":", " ", "#", "a", " ", "#", "b", " ", "#", "c">> }

ReplyMembers ==
    { <<"\"", "h", "o", "o", "k", "\"", ":", "\"", "H", "\"">>, <<"\"", "s", "c", "r", "i", "p", "t", "\"", ":", "\"", "A", ".", " ", "B", ".", "\"">>, <<"\"", "h", "o", "o", "k", "\"", ":", "7">>,
      <<"\"", "h", "a", "s", "h", "t", "a", "g", "s", "\"", ":", "n", "u", "l", "l">>, <<"\"", "t", "i", "m", "e", "s", "t", "a", "m", "p", "s", "\"", ":", "[", "]">>, <<"\"", "m", "u", "s", "i", "c", "_", "s", "u", "g", "g", "e", "s", "t", "i", "o", "n", "s", "\"", ":", "[", "]">> }

LlmReplies ==
    { JoinWith(ls, <<"\n">>) : ls \in SeqsUpTo(ReplyLines, MaxReplyParts) }
    \cup { <<"{">> \o JoinWith(ms, <<",">>) \o tail :
             ms \in SeqsUpTo(ReplyMembers, MaxReplyParts), tail \in {<<"}">>, <<>>} }

\* str(e) of the exception chain.arun raises.
LlmErrors == { <<>>, <<"L", "L", "M", " ", "E", "r", "r", "o", "r">> }

\* The exception the stubbed music adapter raises.
MusicError == Raise("Exception", <<"m", "u", "s", "i", "c">>)

\* Mutant of AfterBackendFailure: the backend call is tried a second time.
AfterBackendFailureRetry == IF llm_calls < 2 THEN "gc_call" ELSE "gc_done"

\* Where generate_content stands after the except clause handled a failure of
\* chain.arun: the call is over, chain.arun is not awaited again.
AfterBackendFailure == "gc_done"

\* What the catalog answers within generate_content.
PipelineCatalogReplies ==
    {[kind |-> "raise"], [kind |-> "return", items |-> <<>>]}
    \cup {[kind |-> "return", items |-> <<t>>] : t \in Tracks}

Init ==
    /\ IdleRoute
    /\ IdleRateLimit
    /\ pc = "gc_call"
    /\ tone \in {<<"e", "n", "e", "r", "g", "e", "t", "i", "c">>, <<"c", "a", "s", "u", "a", "l">>}
    /\ platform = "tiktok"
    /\ include_music \in BOOLEAN
    /\ spotify_client_id \in BOOLEAN
    /\ spotify \in {b \in BOOLEAN : b => spotify_client_id}
    /\ wandb_api_key \in BOOLEAN
    /\ limit = DefaultLimit
    /\ suggestions = <<>>
    /\ search_calls = 0
    /\ catalog_reply = NoOutcome
    /\ llm_result = NoOutcome
    /\ llm_calls = 0
    /\ music_result = NoOutcome
    /\ stages = <<>>
    /\ result = NoOutcome
    /\ content = <<>>
    /\ quality_score = NoOutcome
    /\ IdleTimestamps
    /\ IdleParse
    /\ IdleTemplates
    /\ IdleSession

\* Lines 49-96: the template, the prompt and the chain are built and
\* chain.arun is awaited.
GC_CallBackend ==
    /\ pc = "gc_call"
    /\ llm_calls' = llm_calls + 1
    /\ Lookup(<<"c", "o", "n", "t", "e", "n", "t", "_", "g", "e", "n", "e", "r", "a", "t", "i", "o", "n">>, <<"t", "i", "k", "t", "o", "k">>)
    /\ stages' = <<"template", "backend">>
    /\ pc' = "gc_await_llm"
    /\ UNCHANGED <<route_vars, rl_vars, files, file_changes, sess_vars, ts_vars, score_vars, parse_vars, music_vars, include_music,
                   spotify_client_id, wandb_api_key, llm_result, music_result,
                   result>>

\* chain.arun raises: the except clause of generate_content.
GC_BackendRaises ==
    /\ pc = "gc_await_llm"
    /\ \E msg \in LlmErrors :
          /\ llm_result' = Raise("Exception", msg)
          /\ result' = WrapFailure(Raise("Exception", msg))
    /\ pc' = AfterBackendFailure
    /\ UNCHANGED <<route_vars, rl_vars, tpl_vars, sess_vars, ts_vars, score_vars, parse_vars, music_vars, include_music,
                   spotify_client_id, wandb_api_key, llm_calls, music_result,
                   stages>>

\* chain.arun returns and the music step is skipped (or the parse fails
\* before it).
GC_BackendReturnsNoMusic ==
    /\ pc = "gc_await_llm"
    /\ \E raw \in LlmReplies :
          \E p \in {parse_generated_content(raw)} :
              /\ p.kind = "raise" \/ ~(include_music /\ spotify_client_id)
              /\ llm_result' = Return(raw)
              /\ raw_content' = raw
              /\ parsed' = p
              /\ content' = IF p.kind = "return" THEN p.value ELSE content
              /\ stages' = stages \o StagesAfterLlm(raw, p, NoOutcome, wandb_api_key)
              /\ result' = AfterLlm(p, NoOutcome, wandb_api_key)
    /\ pc' = "gc_done"
    /\ UNCHANGED <<route_vars, rl_vars, tpl_vars, sess_vars, ts_vars, quality_score, music_vars, include_music,
                   spotify_client_id, wandb_api_key, llm_calls, music_result>>

\* chain.arun returns and get_music_suggestions runs, with or without a
\* catalog client.
GC_BackendReturnsMusic ==
    /\ pc = "gc_await_llm"
    /\ include_music /\ spotify_client_id
    /\ \E raw \in LlmReplies :
          \E p \in {parse_generated_content(raw)} :
              /\ p.kind = "return"
              /\ llm_result' = Return(raw)
              /\ raw_content' = raw
              /\ parsed' = p
              /\ content' = p.value
              /\ \E reply \in PipelineCatalogReplies :
                    LET music == get_music_suggestions(spotify, reply, tone,
                                                       platform, limit)
                    IN  /\ catalog_reply' = IF spotify THEN reply ELSE catalog_reply
                        /\ suggestions' = music
                        /\ music_result' = Return(music)
                        /\ stages' = stages \o StagesAfterLlm(raw, p, Return(music),
                                                              wandb_api_key)
                        /\ result' = AfterLlm(p, Return(music), wandb_api_key)
    /\ search_calls' = IF spotify THEN search_calls + 1 ELSE search_calls
    /\ pc' = "gc_done"
    /\ UNCHANGED <<route_vars, rl_vars, tpl_vars, sess_vars, ts_vars, quality_score, spotify, tone, platform, limit,
                   include_music, spotify_client_id, wandb_api_key, llm_calls>>

\* chain.arun returns and the awaited music adapter raises (the adapter is an
\* attribute of the service and is replaced by a stub in the unit tests):
\* lines 110-112 store an empty list.
GC_BackendReturnsMusicRaises ==
    /\ pc = "gc_await_llm"
    /\ include_music /\ spotify_client_id
    /\ \E raw \in LlmReplies :
          \E p \in {parse_generated_content(raw)} :
              /\ p.kind = "return"
              /\ llm_result' = Return(raw)
              /\ raw_content' = raw
              /\ parsed' = p
              /\ content' = p.value
              /\ music_result' = MusicError
              /\ stages' = stages \o StagesAfterLlm(raw, p, MusicError, wandb_api_key)
              /\ result' = AfterLlm(p, MusicError, wandb_api_key)
    /\ pc' = "gc_done"
    /\ UNCHANGED <<route_vars, rl_vars, tpl_vars, sess_vars, ts_vars, quality_score, music_vars, include_music,
                   spotify_client_id, wandb_api_key, llm_calls>>

Next ==
    \/ GC_CallBackend
    \/ GC_BackendRaises
    \/ GC_BackendReturnsNoMusic
    \/ GC_BackendReturnsMusic
    \/ GC_BackendReturnsMusicRaises

Spec == Init /\ [][Next]_vars

(***************************************************************************)
(* Properties of generate_content.                                         *)
(***************************************************************************)
\* The call is over and chain.arun raised.
BackendRaised == pc = "gc_done" /\ llm_result.kind = "raise"

\* C3: when the backend call raises, generate_content raises
\* ContentGenerationError, and nothing else; its message is not empty and
\* ends with str(e) of the backend's error; no content record is returned
\* and the reply is never parsed.
C3_BackendFailureWrapped ==
    BackendRaised =>
        /\ result.kind = "raise"
        /\ result.type = "ContentGenerationError"
        /\ result.message # <<>>
        /\ Len(result.message) > Len(llm_result.message)
        /\ SubSeq(result.message,
                  Len(result.message) - Len(llm_result.message) + 1,
                  Len(result.message)) = llm_result.message
        /\ parsed = NoOutcome
        /\ content = <<>>

\* The backend raised an error whose str() is empty, and the call ended in a
\* failure.
C3_Witness ==
    /\ BackendRaised
    /\ llm_result.message = <<>>
    /\ result.kind = "raise"

\* The call is over, and the reply, trimmed, starts with "{" and is not
\* well-formed JSON.
MalformedJsonReply ==
    /\ pc = "gc_done"
    /\ llm_result.kind = "return"
    /\ StartsWith(Strip(raw_content), <<"{">>)
    /\ ~json_loads(raw_content).ok

\* C7: a reply that starts with "{" after trimming and is not well-formed
\* JSON makes _parse_generated_content fail, and generate_content fails with
\* it: no record comes back, in particular not the one the line scan would
\* build from that reply.
C7_MalformedJsonFatal ==
    MalformedJsonReply =>
        /\ parsed.kind = "raise"
        /\ result.kind = "raise"
        /\ result.type = "ContentGenerationError"
        /\ content = <<>>

\* The reply {"hook":"H" without its closing brace made the call fail.
C7_Witness ==
    /\ MalformedJsonReply
    /\ raw_content = <<"{", "\"", "h", "o", "o", "k", "\"", ":", "\"", "H", "\"">>
    /\ result.kind = "raise"

\* The call returned a record whose script is a non-empty string.
ReturnedWithScript ==
    /\ pc = "gc_done"
    /\ result.kind = "return"
    /\ k_script \in DOMAIN result.value
    /\ result.value[k_script].t = "str"
    /\ result.value[k_script].v # <<>>

\* C9: every record generate_content returns with a non-empty script carries
\* the timestamps synthesized from that script, on the JSON path as on the
\* text path.
C9_TimestampsSynthesized ==
    ReturnedWithScript =>
        /\ k_timestamps \in DOMAIN result.value
        /\ result.value[k_timestamps] =
               PyList(generate_timestamps(result.value[k_script].v))

\* The call is over and the music step raised.
MusicStepFailed == pc = "gc_done" /\ music_result.kind = "raise"

\* The keys generate_content sets itself.
AttachedKeys == {k_music_suggestions, k_model_used, k_quality_score}

\* C13: when the music step raises, the call does not fail because of it.  It
\* returns the parsed record with music_suggestions = [], model_used and
\* quality_score attached; the only failures left are the TypeError of the
\* score or of the log on a JSON value without len(), which do not come from
\* the music step, and no reply in labelled text fails.
C13_MusicFailureNotFatal ==
    MusicStepFailed =>
        /\ parsed.kind = "return"
        /\ result.kind \in {"return", "raise"}
        /\ result.kind = "raise" =>
              /\ ~OnTextPath(raw_content)
              /\ \/ ScoreRaises(parsed.value)
                 \/ wandb_api_key /\ WandbLogRaises(parsed.value)
        /\ result.kind = "return" =>
              /\ result.value[k_music_suggestions] = PyList(<<>>)
              /\ result.value[k_model_used] = PyStr(OPENAI_MODEL)
              /\ result.value[k_quality_score] = PyInt(ScorePoints(parsed.value))
              /\ DOMAIN result.value = DOMAIN parsed.value \cup AttachedKeys
              /\ \A k \in DOMAIN parsed.value \ AttachedKeys :
                    result.value[k] = parsed.value[k]

\* The music step raised after a reply in labelled text with a hook, and the
\* record came back with an empty music_suggestions list.
C13_Witness ==
    /\ MusicStepFailed
    /\ OnTextPath(raw_content)
    /\ result.kind = "return"
    /\ result.value[k_hook].v # <<>>
    /\ result.value[k_music_suggestions] = PyList(<<>>)

\* Music was requested and the catalog is enabled.
MusicWanted == include_music /\ spotify_client_id

\* C14: a returned record holds the music_suggestions key exactly when music
\* was requested and the catalog is enabled; otherwise the key is absent and
\* the music adapter was not invoked.
C14_MusicFieldIffRequested ==
    (pc = "gc_done" /\ result.kind = "return") =>
        /\ (k_music_suggestions \in DOMAIN result.value) <=> MusicWanted
        /\ ~MusicWanted => music_result = NoOutcome /\ search_calls = 0

\* C17: within one generate_content call chain.arun is awaited at most once
\* and self.spotify.search is called at most once, whether they succeed or
\* fail; a finished call awaited chain.arun exactly once, and a music step that
\* went to the catalog called search exactly once.
C17_NoRetries ==
    /\ llm_calls <= 1
    /\ search_calls <= 1
    /\ pc = "gc_done" => llm_calls = 1
    /\ (pc = "gc_done" /\ music_result.kind = "return" /\ spotify) => search_calls = 1
    /\ (pc = "gc_done" /\ ~(music_result.kind = "return" /\ spotify)) => search_calls = 0

\* The catalog search raised in a call whose backend answered: one backend
\* call, one search, and the fallback list.
C17_Witness ==
    /\ pc = "gc_done"
    /\ catalog_reply = [kind |-> "raise"]
    /\ llm_calls = 1
    /\ search_calls = 1
    /\ suggestions # <<>>

\* The stages of the log other than the wandb log.
StagesRun == SelectSeq(stages, LAMBDA st : st # "log")

\* The position of a stage in an order.
Position(order, st) == CHOOSE i \in 1..Len(order) : order[i] = st

\* The log follows the order: its stages appear in it, each after the ones
\* logged before.
FollowsOrder(log, order) ==
    /\ \A i \in 1..Len(log) : \E j \in 1..Len(order) : order[j] = log[i]
    /\ \A i, j \in 1..Len(log) :
          i < j => Position(order, log[i]) < Position(order, log[j])

ClaimedOrder ==
    <<"template", "backend", "parse", "timestamps", "score", "music", "return">>

CodeOrder ==
    <<"template", "backend", "parse", "timestamps", "music", "score", "return">>

TemplateReturned == tpl_call # NoOutcome

\* The text the order of choice gives for a call, on the files as they were
\* when the call was made.
ChosenInOrder(call) ==
    LET own     == template_file(call.template_type, call.platform)
        general == template_file(call.template_type, <<"g", "e", "n", "e", "r", "a", "l">>)
        builtin == get_default_template(call.template_type)
    IN  IF Exists(call.files, own)
        THEN IF call.files[own].readable THEN call.files[own].text ELSE builtin
        ELSE IF Exists(call.files, general)
        THEN IF call.files[general].readable THEN call.files[general].text ELSE builtin
        ELSE builtin

\* The chosen file of a call exists and is empty.
ChoseEmptyFile(call) ==
    \E name \in {TemplatePath(call.files, call.template_type, call.platform)} :
       Exists(call.files, name) /\ call.files[name] = Stored("")

\* C15 as stated: every get_template call returns a non-empty string, and a
\* call that goes to the files returns the text the order of choice gives.
C15_AsClaimed ==
    TemplateReturned =>
        /\ tpl_result # ""
        /\ ~tpl_call.hit => tpl_result = ChosenInOrder(tpl_call)

\* C15, amended: a get_template call whose cache key holds nothing yet
\* returns the text the order of choice gives (own file, else general file,
\* else the built-in default of the kind; the default too when the existing
\* file cannot be read), and that text is empty only if the chosen file is
\* empty; any other call returns what the cache holds under the key.
C15_ChosenInOrder ==
    TemplateReturned =>
        /\ ~tpl_call.hit <=>
              cache_key(tpl_call.template_type, tpl_call.platform) \notin DOMAIN tpl_call.cache
        /\ ~tpl_call.hit =>
              /\ tpl_result = ChosenInOrder(tpl_call)
              /\ tpl_result = "" => ChoseEmptyFile(tpl_call)
        /\ tpl_call.hit =>
              tpl_result = tpl_call.cache[cache_key(tpl_call.template_type, tpl_call.platform)]

\* A call went to the files, found no file of its own and returned the
\* text of the kind's general file.
C15_Witness ==
    /\ TemplateReturned
    /\ ~tpl_call.hit
    /\ ~Exists(tpl_call.files, template_file(tpl_call.template_type, tpl_call.platform))
    /\ Exists(tpl_call.files, template_file(tpl_call.template_type, <<"g", "e", "n", "e", "r", "a", "l">>))
    /\ tpl_call.platform # <<"g", "e", "n", "e", "r", "a", "l">>
    /\ tpl_result = "stored template"

\* C16: a get_template call for a pair that was answered before returns the
\* string the pair was given first and makes no storage operation.
C16_CachedForLife ==
    TemplateReturned /\ tpl_call.asked_before =>
        /\ tpl_result = first_returned[<<tpl_call.template_type, tpl_call.platform>>]
        /\ tpl_call.accesses = 0

\* A pair was asked again after the files had changed so that they would
\* now give another text.
C16_Witness ==
    /\ TemplateReturned
    /\ tpl_call.asked_before
    /\ file_changes > 0
    /\ LoadTemplate(tpl_call.files, tpl_call.template_type, tpl_call.platform) # tpl_result
    /\ tpl_result = first_returned[<<tpl_call.template_type, tpl_call.platform>>]

(***************************************************************************)
(* Properties of the hashtags of a parsed record.                          *)
(***************************************************************************)
\* The parser returned a record whose hashtags are a list.
ParsedHashtags ==
    IF /\ pc = "parse_return"
       /\ parsed.kind = "return"
       /\ k_hashtags \in DOMAIN parsed.value
       /\ parsed.value[k_hashtags].t = "list"
    THEN parsed.value[k_hashtags].v
    ELSE <<>>

\* Two hashtags that differ, but only by letter case.
DifferOnlyByCase(a, b) == a # b /\ Lower(a) = Lower(b)

\* C19 as claimed: no hashtag of a record returned by the parser starts with
\* '#', and no two hashtags of one record differ only by letter case.
C19_HashtagsNormalized ==
    \A i \in 1..Len(ParsedHashtags) :
       /\ ~StartsWith(ParsedHashtags[i], <<"#">>)
       /\ \A j \in 1..Len(ParsedHashtags) :
             ~DifferOnlyByCase(ParsedHashtags[i], ParsedHashtags[j])

(***************************************************************************)
(* Specification SpecSession: at most MaxSessionCalls generate_content     *)
(* calls on one ContentGeneratorService, running one after another or      *)
(* concurrently, without music and without experiment logging.  __init__   *)
(* creates one ConversationBufferMemory (lines 30-33) and every call hands *)
(* it to its LLMChain (lines 66-72).  A chain with a memory loads the      *)
(* memory's variables into its inputs when it is run and saves the run's   *)
(* inputs and output into the memory when the run returns; a run that      *)
(* raises saves nothing.                                                   *)
(***************************************************************************)
SessionTopics == {"cats", "dogs"}

SessionReplies == { <<"H", "O", "O", "K", ":", " ", "H">>, <<"S", "C", "R", "I", "P", "T", ":", " ", "Y", ".", " ", "Z", ".">>, <<"{", "\"", "h", "o", "o", "k", "\"", ":", "7", "}">> }

\* The platforms the calls of a session are made for.
SessionPlatforms == {<<"t", "i", "k", "t", "o", "k">>, <<"i", "n", "s", "t", "a", "g", "r", "a", "m">>}

\* The files of templates_dir a session may find: each template file of
\* the kind content_generation is stored or missing.
SessionFiles ==
    { fs \in [StoredNames -> {Missing, Stored("stored template")}] :
        ~Exists(fs, template_file(<<"c", "o", "n", "t", "e", "n", "t">>, <<"g", "e", "n", "e", "r", "a", "l">>)) }

\* The service is constructed over the files of templates_dir as they are; in
\* a session nobody changes them.
InitSession ==
    /\ IdleRoute
    /\ IdleRateLimit
    /\ pc = "session"
    /\ memory = <<>>
    /\ calls = <<>>
    /\ IdleTimestamps
    /\ IdleScore
    /\ IdleParse
    /\ IdleMusic
    /\ IdleGenerate
    /\ files \in SessionFiles
    /\ cache = <<>>
    /\ tpl_call = NoOutcome
    /\ tpl_result = NoOutcome
    /\ first_returned = <<>>
    /\ tpl_calls = 0
    /\ file_changes = 0

\* generate_content up to "await chain.arun(...)": the template is looked
\* up, the chain is built on self.memory and started with the brief.
SessionCall ==
    /\ Len(calls) < MaxSessionCalls
    /\ \E topic \in SessionTopics, a_platform \in SessionPlatforms :
          /\ Lookup(<<"c", "o", "n", "t", "e", "n", "t", "_", "g", "e", "n", "e", "r", "a", "t", "i", "o", "n">>, a_platform)
          /\ calls' = Append(calls, [topic |-> topic, platform |-> a_platform,
                                     template |-> tpl_result', at |-> "awaiting",
                                     history |-> memory, result |-> NoOutcome])
    /\ UNCHANGED <<route_vars, rl_vars, memory, files, file_changes, pc, ts_vars, score_vars, parse_vars,
                   music_vars, gc_vars>>

\* chain.arun of a call returns the backend's reply: the exchange is saved
\* into self.memory and the rest of generate_content runs.
SessionBackendReturns ==
    \E i \in DOMAIN calls, raw \in SessionReplies :
       /\ calls[i].at = "awaiting"
       /\ memory' = Append(memory, [inputs |-> calls[i].topic, output |-> raw])
       /\ \E p \in {parse_generated_content(raw)} :
             calls' = [calls EXCEPT ![i].at = "done",
                                    ![i].result = AfterLlm(p, NoOutcome, FALSE)]
       /\ UNCHANGED <<route_vars, rl_vars, pc, tpl_vars, ts_vars, score_vars, parse_vars, music_vars, gc_vars>>

\* chain.arun of a call raises: the except clause of generate_content.
SessionBackendRaises ==
    \E i \in DOMAIN calls, msg \in LlmErrors :
       /\ calls[i].at = "awaiting"
       /\ calls' = [calls EXCEPT ![i].at = "done",
                                 ![i].result = WrapFailure(Raise("Exception", msg))]
       /\ UNCHANGED <<route_vars, rl_vars, memory, pc, tpl_vars, ts_vars, score_vars, parse_vars, music_vars,
                      gc_vars>>

NextSession == SessionCall \/ SessionBackendReturns \/ SessionBackendRaises

SpecSession == InitSession /\ [][NextSession]_vars

(***************************************************************************)
(* Properties of a sequence of generate_content calls.                     *)
(***************************************************************************)
\* C20 as claimed: no call's chain is handed anything of another call, that
\* is, the conversation history every call starts with is empty.
C20_NothingCarriedOver ==
    \A i \in DOMAIN calls : calls[i].history = <<>>

(***************************************************************************)
(* TrendAnalyzerService.analyze_trends (app/services/trend_analyzer.py)    *)
(* and the trend block of the prompt.  Hashtags, topics and tips are       *)
(* concatenated and joined, so they are character sequences.               *)
(***************************************************************************)
\* list(dict.fromkeys(items)): the first occurrence of each item, in order.
Dedupe(items) ==
    LET first == SelectSeq([i \in 1..Len(items) |-> i],
                           LAMBDA i : \A j \in 1..(i - 1) : items[j] # items[i])
    IN  [k \in 1..Len(first) |-> items[first[k]]]

\* items[:n]
Take(items, n) == SubSeq(items, 1, IF Len(items) < n THEN Len(items) ELSE n)

\* s.replace(" ", "")
WithoutSpaces(s) == SelectSeq(s, LAMBDA c : c # " ")

\* _generate_hashtag_suggestions
generate_hashtag_suggestions(topic, a_platform) ==
    LET base == WithoutSpaces(Lower(topic))
        platform_hashtags ==
            CASE a_platform = <<"i", "n", "s", "t", "a", "g", "r", "a", "m">> ->
                   <<<<"r", "e", "e", "l", "s">>, <<"i", "n", "s", "t", "a", "g", "r", "a", "m">>, <<"v", "i", "r", "a", "l">>, <<"t", "r", "e", "n", "d", "i", "n", "g">>, <<"e", "x", "p", "l", "o", "r", "e">>>>
              [] a_platform = <<"y", "o", "u", "t", "u", "b", "e">> ->
                   <<<<"s", "h", "o", "r", "t", "s">>, <<"y", "o", "u", "t", "u", "b", "e">>, <<"v", "i", "r", "a", "l">>, <<"t", "r", "e", "n", "d", "i", "n", "g">>, <<"y", "o", "u", "t", "u", "b", "e", "r">>>>
              [] a_platform = <<"t", "i", "k", "t", "o", "k">> ->
                   <<<<"t", "i", "k", "t", "o", "k">>, <<"f", "y", "p">>, <<"f", "o", "r", "y", "o", "u">>, <<"v", "i", "r", "a", "l">>, <<"t", "r", "e", "n", "d", "i", "n", "g">>>>
              [] OTHER -> <<>>
    IN  Take(<<base, base \o <<"t", "i", "p", "s">>, base \o <<"c", "o", "n", "t", "e", "n", "t">>>> \o platform_hashtags
             \o <<<<"c", "o", "n", "t", "e", "n", "t">>, <<"c", "r", "e", "a", "t", "o", "r">>, <<"s", "o", "c", "i", "a", "l", "m", "e", "d", "i", "a">>, <<"d", "i", "g", "i", "t", "a", "l">>>>, 10)

\* What the platform branch of analyze_trends merges into the trends: the
\* placeholder trends of tiktok and instagram, the answer of the YouTube
\* service without API client for youtube, nothing for any other platform.
PlatformTrends(topic, a_platform) ==
    CASE a_platform = <<"t", "i", "k", "t", "o", "k">> ->
           [hashtags |-> <<topic \o <<"t", "i", "k", "t", "o", "k">>, topic \o <<"v", "i", "r", "a", "l">>, <<"f", "y", "p">>, <<"f", "o", "r", "y", "o", "u">>>>,
            topics |-> <<topic \o <<" ", "c", "h", "a", "l", "l", "e", "n", "g", "e", "s">>, topic \o <<" ", "t", "i", "p", "s">>>>,
            engagement_tips |-> <<"U", "s", "e", " ", "t", "r", "e", "n", "d", "i", "n", "g", " ", "s", "o", "u", "n", "d", "s", ",", " ", "c", "r", "e", "a", "t", "e", " ", "e", "n", "g", "a", "g", "i", "n", "g", " ", "h", "o", "o", "k", "s", ",", " ", "p", "o", "s", "t", " ", "a", "t", " ", "p", "e", "a", "k", " ", "t", "i", "m", "e", "s">>]
      [] a_platform = <<"i", "n", "s", "t", "a", "g", "r", "a", "m">> ->
           [hashtags |-> <<topic \o <<"r", "e", "e", "l", "s">>, topic \o <<"i", "n", "s", "t", "a", "g", "r", "a", "m">>, <<"r", "e", "e", "l", "s">>, <<"t", "r", "e", "n", "d", "i", "n", "g">>>>,
            topics |-> <<topic \o <<" ", "c", "o", "n", "t", "e", "n", "t">>, topic \o <<" ", "i", "d", "e", "a", "s">>>>,
            engagement_tips |-> <<"U", "s", "e", " ", "I", "n", "s", "t", "a", "g", "r", "a", "m", " ", "R", "e", "e", "l", "s", " ", "f", "e", "a", "t", "u", "r", "e", "s", ",", " ", "a", "d", "d", " ", "c", "a", "p", "t", "i", "o", "n", "s", ",", " ", "u", "s", "e", " ", "t", "r", "e", "n", "d", "i", "n", "g", " ", "a", "u", "d", "i", "o">>]
      [] a_platform = <<"y", "o", "u", "t", "u", "b", "e">> ->
           [hashtags |-> <<topic \o <<"y", "o", "u", "t", "u", "b", "e">>, topic \o <<"s", "h", "o", "r", "t", "s">>>>,
            topics |-> <<topic>>,
            engagement_tips |-> <<"U", "s", "e", " ", "e", "n", "g", "a", "g", "i", "n", "g", " ", "t", "h", "u", "m", "b", "n", "a", "i", "l", "s", " ", "a", "n", "d", " ", "t", "i", "t", "l", "e", "s">>]
      [] OTHER ->
           [hashtags |-> <<>>, topics |-> <<>>, engagement_tips |-> <<>>]

\* analyze_trends when nothing inside it raises (lines 28-60).
TrendsFound(topic, a_platform) ==
    LET found == PlatformTrends(topic, a_platform)
    IN  [hashtags |-> Take(Dedupe(found.hashtags
                                  \o generate_hashtag_suggestions(topic, a_platform)), 10),
         topics |-> Take(Dedupe(found.topics), 5),
         engagement_tips |-> found.engagement_tips]

\* analyze_trends when something inside it raises: the except clause
\* (lines 62-71).
TrendsFallback(topic, a_platform) ==
    [hashtags |-> generate_hashtag_suggestions(topic, a_platform),
     topics |-> <<topic>>,
     engagement_tips |->
        <<"P", "o", "s", "t", " ", "d", "u", "r", "i", "n", "g", " ", "p", "e", "a", "k", " ", "h", "o", "u", "r", "s", ",", " ", "u", "s", "e", " ", "e", "n", "g", "a", "g", "i", "n", "g", " ", "c", "a", "p", "t", "i", "o", "n", "s", ",", " ", "i", "n", "t", "e", "r", "a", "c", "t", " ", "w", "i", "t", "h", " ", "c", "o", "m", "m", "e", "n", "t", "s">>]

\* No trend context: trends = None.
NoTrends == [hashtags |-> <<>>, topics |-> <<>>, engagement_tips |-> <<>>, none |-> TRUE]

\* bool(trends): None and the empty dict are false; a dict of analyze_trends
\* always has its keys.
TrendsSupplied(trends) == "none" \notin DOMAIN trends

\* generate_content, lines 77-85: trends_data.
RenderTrends(trends) ==
    IF TrendsSupplied(trends)
    THEN <<"\n", "C", "u", "r", "r", "e", "n", "t", " ", "T", "r", "e", "n", "d", "s", ":", "\n", "-", " ", "T", "r", "e", "n", "d", "i", "n", "g", " ", "h", "a", "s", "h", "t", "a", "g", "s", ":", " ">>
         \o JoinWith(Take(trends.hashtags, 5), <<",", " ">>)
         \o <<"\n", "-", " ", "P", "o", "p", "u", "l", "a", "r", " ", "t", "o", "p", "i", "c", "s", ":", " ">> \o JoinWith(Take(trends.topics, 3), <<",", " ">>)
         \o <<"\n", "-", " ", "E", "n", "g", "a", "g", "e", "m", "e", "n", "t", " ", "p", "a", "t", "t", "e", "r", "n", "s", ":", " ">> \o trends.engagement_tips \o <<"\n">>
    ELSE <<>>

(***************************************************************************)
(* The generate endpoint (app/api/routes/content.py).  The handler is      *)
(* suspended in its awaits: the commits of its database session, the trend *)
(* lookup and generate_content (whose only suspension is the backend       *)
(* call).  A commit that raises leaves the session's transaction inactive  *)
(* until a rollback, which the handler never issues, so every later commit *)
(* of the session raises too.  Cancellation is delivered at a suspension   *)
(* as CancelledError, which "except Exception" does not catch.  The        *)
(* generator runs without catalog credentials and without experiment       *)
(* logging.                                                                *)
(***************************************************************************)
PlatformNames == {<<"i", "n", "s", "t", "a", "g", "r", "a", "m">>, <<"y", "o", "u", "t", "u", "b", "e">>, <<"t", "i", "k", "t", "o", "k">>}

\* Field(..., regex="^(instagram|youtube|tiktok)$"): re.match, whose "$"
\* matches at the end of the string and before a newline that ends it.
MatchesPlatform(value) ==
    \/ value \in PlatformNames
    \/ \E name \in PlatformNames : value = name \o <<"\n">>

\* Field(..., min_length=lo, max_length=hi) of a required str field.
LengthWithin(field, lo, hi) ==
    field.t = "str" /\ Len(field.v) >= lo /\ Len(field.v) <= hi

\* Validation of the body against ContentGenerationRequest (lines 20-28).
ValidBody(body) ==
    /\ LengthWithin(body.topic, 1, 200)
    /\ body.platform.t = "str" /\ MatchesPlatform(body.platform.v)
    /\ LengthWithin(body.tone, 1, 100)
    /\ LengthWithin(body.target_audience, 1, 200)

\* GenerationRequest as the handler creates it; success takes the column
\* default "pending" at the INSERT.
NewGenRequest == [success |-> "pending", error_message |-> PyNone, content_script_id |-> PyNone]

\* The handler's locals before its first statement.
NewHandler ==
    [gen_request |-> NewGenRequest,
     session |-> "active",
     trend_lookup |-> "none",
     trends |-> NoTrends,
     trends_data |-> <<>>,
     invoked |-> {},
     reply |-> NoOutcome,
     content_script |-> NoOutcome,
     error |-> NoOutcome]

\* The keys the handler reads with content_result[...] (lines 102-104).
RequiredKeys == <<k_hook, k_storyline, k_script>>

MissingKeys(c) == {i \in DOMAIN RequiredKeys : RequiredKeys[i] \notin DOMAIN c}

\* str(KeyError(key))
KeyErrorOf(key) == Raise("KeyError", <<"'">> \o key \o <<"'">>)

\* ContentScript(...) of lines 97-111: the columns taken from content_result.
ContentScriptOf(c) ==
    [hook |-> c[k_hook], storyline |-> c[k_storyline], script |-> c[k_script],
     timestamps |-> Get(c, k_timestamps), hashtags |-> Get(c, k_hashtags),
     music_suggestions |-> Get(c, k_music_suggestions),
     model_used |-> Get(c, k_model_used), quality_score |-> Get(c, k_quality_score)]

\* hook, storyline and script are nullable=False columns.
NotNullViolated(row) ==
    row.hook.t = "none" \/ row.storyline.t = "none" \/ row.script.t = "none"

\* The except clause of the handler up to its commit (lines 133-140).
Failed(h, e) ==
    [h EXCEPT !.error = e,
              !.gen_request = [@ EXCEPT !.success = "failed",
                                        !.error_message = PyStr(e.message)]]

\* Lines 143-146: the status of the HTTPException the handler raises.
StatusOf(e) == IF e.type = "ContentGenerationError" THEN 422 ELSE 500

\* Mutant of AfterTrendFailure: a trend lookup that raises fails the request.
AfterTrendFailureFatal == "rt_commit_failure"

\* Lines 79-80: where the handler stands after analyze_trends raised.
AfterTrendFailure == "rt_generate"

\* The handler calls generate_content, which renders the trend block and
\* suspends in the backend call.
CallGenerator(h, trends) ==
    [h EXCEPT !.trends = trends,
              !.trends_data = RenderTrends(trends),
              !.invoked = @ \cup {"generator"}]

(***************************************************************************)
(* Specification SpecRoute: one POST /generate, from the body's validation *)
(* to the response, with at most MaxDbErrors commits failing for reasons   *)
(* of the database itself.                                                 *)
(***************************************************************************)
Bodies ==
    [topic : {PyStr(<<"c", "a", "t", "s">>), PyStr(<<>>), PyStr(Rep("x", 201)), Absent},
     platform : {PyStr(<<"t", "i", "k", "t", "o", "k">>), PyStr(<<"t", "i", "k", "t", "o", "k", "\n">>), PyStr(<<"f", "a", "c", "e", "b", "o", "o", "k">>), Absent},
     tone : {PyStr(<<"c", "a", "s", "u", "a", "l">>)},
     target_audience : {PyStr(<<"t", "e", "e", "n", "s">>), Absent},
     include_trends : BOOLEAN]

RouteReplies ==
    { <<"H", "O", "O", "K", ":", " ", "H", "\n", "S", "T", "O", "R", "Y", "L", "I", "N", "E", ":", " ", "S", "\n", "S", "C", "R", "I", "P", "T", ":", " ", "Y", ".", " ", "Z", ".", "\n", "H", "A", "S", "H", "T", "A", "G", "S", ":", " ", "#", "a">>,
      <<>>,
      <<"{">>,
      <<"{", "\"", "h", "o", "o", "k", "\"", ":", "\"", "H", "\"", ",", "\"", "s", "t", "o", "r", "y", "l", "i", "n", "e", "\"", ":", "\"", "S", "\"", ",", "\"", "s", "c", "r", "i", "p", "t", "\"", ":", "\"", "Y", ".", " ", "Z", ".", "\"", "}">>,
      <<"{", "\"", "h", "o", "o", "k", "\"", ":", "\"", "H", "\"", ",", "\"", "s", "t", "o", "r", "y", "l", "i", "n", "e", "\"", ":", "n", "u", "l", "l", ",", "\"", "s", "c", "r", "i", "p", "t", "\"", ":", "\"", "Y", ".", " ", "Z", ".", "\"", "}">>,
      <<"{", "\"", "s", "t", "o", "r", "y", "l", "i", "n", "e", "\"", ":", "\"", "S", "\"", ",", "\"", "s", "c", "r", "i", "p", "t", "\"", ":", "\"", "Y", ".", " ", "Z", ".", "\"", "}">>,
      <<"{", "\"", "h", "o", "o", "k", "\"", ":", "7", ",", "\"", "s", "t", "o", "r", "y", "l", "i", "n", "e", "\"", ":", "\"", "S", "\"", ",", "\"", "s", "c", "r", "i", "p", "t", "\"", ":", "\"", "Y", ".", " ", "Z", ".", "\"", "}">> }

Suspended ==
    {"rt_commit_request", "rt_trends", "rt_generate", "rt_commit_script",
     "rt_commit_success", "rt_commit_failure"}

InitRoute ==
    /\ IdleRateLimit
    /\ pc = "rt_request"
    /\ request_data \in Bodies
    /\ handler = NewHandler
    /\ database = [requests |-> <<>>, scripts |-> <<>>, errors |-> 0]
    /\ response = NoOutcome
    /\ IdleTimestamps
    /\ IdleScore
    /\ IdleParse
    /\ IdleMusic
    /\ IdleGenerate
    /\ IdleTemplates
    /\ IdleSession

\* The body is validated before the handler is called; the handler runs up
\* to its first commit (lines 48-63).
RT_Validate ==
    /\ pc = "rt_request"
    /\ IF ValidBody(request_data)
       THEN pc' = "rt_commit_request" /\ response' = response
       ELSE pc' = "rt_done" /\ response' = [status |-> 422, by |-> "validation"]
    /\ UNCHANGED <<request_data, handler, database, rl_vars, ts_vars, score_vars, parse_vars,
                   music_vars, gc_vars, tpl_vars, sess_vars>>

\* Lines 63-78: the request row is committed; the handler goes on to the
\* trend lookup if trends were asked for, else to generate_content.
RT_RequestCommitted ==
    /\ pc = "rt_commit_request"
    /\ database' = [database EXCEPT !.requests = Append(@, handler.gen_request)]
    /\ IF request_data.include_trends
       THEN /\ pc' = "rt_trends"
            /\ handler' = [handler EXCEPT !.invoked = @ \cup {"trends"}]
       ELSE /\ pc' = "rt_generate"
            /\ handler' = CallGenerator(handler, NoTrends)
    /\ UNCHANGED <<request_data, response, rl_vars, ts_vars, score_vars, parse_vars,
                   music_vars, gc_vars, tpl_vars, sess_vars>>

\* The first commit raises, outside the try: the application's handler for
\* Exception answers 500.
RT_RequestCommitFails ==
    /\ pc = "rt_commit_request"
    /\ database.errors < MaxDbErrors
    /\ database' = [database EXCEPT !.errors = @ + 1]
    /\ handler' = [handler EXCEPT !.session = "inactive",
                                  !.error = Raise("OperationalError", <<"d", "a", "t", "a", "b", "a", "s", "e">>)]
    /\ response' = [status |-> 500, by |-> "application"]
    /\ pc' = "rt_done"
    /\ UNCHANGED <<request_data, rl_vars, ts_vars, score_vars, parse_vars, music_vars,
                   gc_vars, tpl_vars, sess_vars>>

\* analyze_trends returns, with the trends it found or, after an error of
\* its own, with its basic suggestions.
RT_TrendsReturn ==
    /\ pc = "rt_trends"
    /\ \E absorbed \in BOOLEAN :
          \E trends \in {IF absorbed
                         THEN TrendsFallback(request_data.topic.v, request_data.platform.v)
                         ELSE TrendsFound(request_data.topic.v, request_data.platform.v)} :
             handler' = CallGenerator([handler EXCEPT !.trend_lookup =
                                          IF absorbed THEN "absorbed" ELSE "found"], trends)
    /\ pc' = "rt_generate"
    /\ UNCHANGED <<request_data, database, response, rl_vars, ts_vars, score_vars,
                   parse_vars, music_vars, gc_vars, tpl_vars, sess_vars>>

\* analyze_trends raises: lines 79-80.
RT_TrendsRaise ==
    /\ pc = "rt_trends"
    /\ pc' = AfterTrendFailure
    /\ handler' = IF AfterTrendFailure = "rt_generate"
                  THEN CallGenerator([handler EXCEPT !.trend_lookup = "raised"], NoTrends)
                  ELSE Failed([handler EXCEPT !.trend_lookup = "raised"],
                              Raise("Exception", <<"t", "r", "e", "n", "d", "s">>))
    /\ UNCHANGED <<request_data, database, response, rl_vars, ts_vars, score_vars,
                   parse_vars, music_vars, gc_vars, tpl_vars, sess_vars>>

\* The backend replies: generate_content finishes, and the handler builds
\* the content script and suspends in its commit (lines 83-114), or enters
\* its except clause and suspends in the commit of the failure.
RT_BackendReplies ==
    /\ pc = "rt_generate"
    /\ \E raw \in RouteReplies :
          \E r \in {AfterLlm(parse_generated_content(raw), NoOutcome, FALSE)} :
             \E h \in {[handler EXCEPT !.reply = Return(raw)]} :
                IF r.kind = "raise"
                THEN handler' = Failed(h, r) /\ pc' = "rt_commit_failure"
                ELSE IF MissingKeys(r.value) # {}
                THEN /\ handler' = Failed(h, KeyErrorOf(RequiredKeys[
                                      CHOOSE i \in MissingKeys(r.value) :
                                         \A j \in MissingKeys(r.value) : i <= j]))
                     /\ pc' = "rt_commit_failure"
                ELSE /\ handler' = [h EXCEPT !.content_script = ContentScriptOf(r.value)]
                     /\ pc' = "rt_commit_script"
    /\ UNCHANGED <<request_data, database, response, rl_vars, ts_vars, score_vars,
                   parse_vars, music_vars, gc_vars, tpl_vars, sess_vars>>

\* The backend call raises: generate_content raises ContentGenerationError.
RT_BackendRaises ==
    /\ pc = "rt_generate"
    /\ \E msg \in LlmErrors :
          handler' = Failed([handler EXCEPT !.reply = Raise("Exception", msg)],
                            WrapFailure(Raise("Exception", msg)))
    /\ pc' = "rt_commit_failure"
    /\ UNCHANGED <<request_data, database, response, rl_vars, ts_vars, score_vars,
                   parse_vars, music_vars, gc_vars, tpl_vars, sess_vars>>

\* Lines 114-122: the commit of the content script.  A NULL in a NOT NULL
\* column makes it raise; else the row is stored and the handler marks the
\* request successful and suspends in the next commit.
RT_ScriptCommitted ==
    /\ pc = "rt_commit_script"
    /\ IF NotNullViolated(handler.content_script)
       THEN /\ handler' = Failed([handler EXCEPT !.session = "inactive"],
                                 Raise("IntegrityError", <<"N", "O", "T", " ", "N", "U", "L", "L", " ", "c", "o", "n", "s", "t", "r", "a", "i", "n", "t", " ", "f", "a", "i", "l", "e", "d">>))
            /\ pc' = "rt_commit_failure"
            /\ database' = database
       ELSE /\ database' = [database EXCEPT !.scripts = Append(@, handler.content_script)]
            /\ handler' = [handler EXCEPT !.gen_request =
                              [@ EXCEPT !.success = "success",
                                        !.content_script_id = PyInt(Len(database.scripts) + 1)]]
            /\ pc' = "rt_commit_success"
    /\ UNCHANGED <<request_data, response, rl_vars, ts_vars, score_vars, parse_vars,
                   music_vars, gc_vars, tpl_vars, sess_vars>>

\* The commit of the success raises for a reason of the database.
RT_SuccessCommitFails ==
    /\ pc = "rt_commit_success"
    /\ database.errors < MaxDbErrors
    /\ database' = [database EXCEPT !.errors = @ + 1]
    /\ handler' = Failed([handler EXCEPT !.session = "inactive"],
                         Raise("OperationalError", <<"d", "a", "t", "a", "b", "a", "s", "e">>))
    /\ pc' = "rt_commit_failure"
    /\ UNCHANGED <<request_data, response, rl_vars, ts_vars, score_vars, parse_vars,
                   music_vars, gc_vars, tpl_vars, sess_vars>>

\* Lines 122-131: the success is committed and the endpoint answers 200.
RT_SuccessCommitted ==
    /\ pc = "rt_commit_success"
    /\ database' = [database EXCEPT !.requests[1] = handler.gen_request]
    /\ response' = [status |-> 200, by |-> "handler"]
    /\ pc' = "rt_done"
    /\ UNCHANGED <<request_data, handler, rl_vars, ts_vars, score_vars, parse_vars,
                   music_vars, gc_vars, tpl_vars, sess_vars>>

\* Lines 141-146: the failure is committed and the handler raises the
\* HTTPException.
RT_FailureCommitted ==
    /\ pc = "rt_commit_failure"
    /\ handler.session = "active"
    /\ database' = [database EXCEPT !.requests[1] = handler.gen_request]
    /\ response' = [status |-> StatusOf(handler.error), by |-> "handler"]
    /\ pc' = "rt_done"
    /\ UNCHANGED <<request_data, handler, rl_vars, ts_vars, score_vars, parse_vars,
                   music_vars, gc_vars, tpl_vars, sess_vars>>

\* The commit of the failure raises inside the except clause, because the
\* session's transaction is inactive or for a reason of the database: the
\* application's handler for Exception answers 500.
RT_FailureCommitFails ==
    /\ pc = "rt_commit_failure"
    /\ \/ handler.session = "inactive" /\ database' = database
       \/ /\ handler.session = "active"
          /\ database.errors < MaxDbErrors
          /\ database' = [database EXCEPT !.errors = @ + 1]
    /\ response' = [status |-> 500, by |-> "application"]
    /\ pc' = "rt_done"
    /\ UNCHANGED <<request_data, handler, rl_vars, ts_vars, score_vars, parse_vars,
                   music_vars, gc_vars, tpl_vars, sess_vars>>

\* The request is cancelled while the handler is suspended: CancelledError
\* passes both except clauses, the session is closed, nothing more is
\* committed and nothing is answered.
RT_Cancel ==
    /\ pc \in Suspended
    /\ pc' = "rt_done"
    /\ handler' = [handler EXCEPT !.error = Raise("CancelledError", <<>>),
                                  !.session = "closed"]
    /\ response' = [status |-> 0, by |-> "cancelled", at |-> pc]
    /\ UNCHANGED <<request_data, database, rl_vars, ts_vars, score_vars, parse_vars,
                   music_vars, gc_vars, tpl_vars, sess_vars>>

NextRoute ==
    \/ RT_Validate
    \/ RT_RequestCommitted
    \/ RT_RequestCommitFails
    \/ RT_TrendsReturn
    \/ RT_TrendsRaise
    \/ RT_BackendReplies
    \/ RT_BackendRaises
    \/ RT_ScriptCommitted
    \/ RT_SuccessCommitFails
    \/ RT_SuccessCommitted
    \/ RT_FailureCommitted
    \/ RT_FailureCommitFails
    \/ RT_Cancel

SpecRoute == InitRoute /\ [][NextRoute]_vars

(***************************************************************************)
(* Properties of the generate endpoint.                                    *)
(***************************************************************************)
\* The run of the endpoint is over.
RunEnded == pc = "rt_done"

\* The handler was called and finished, normally or with an error.
HandlerFinished == RunEnded /\ response.by \in {"handler", "application"}

\* The run was cancelled.
Cancelled == RunEnded /\ response.by = "cancelled"

\* The status of the committed request row, "none" without a row.
RowStatus ==
    IF database.requests = <<>> THEN "none" ELSE database.requests[1].success

\* C21 as claimed: a request cancelled while suspended on the backend call
\* ends with no content script persisted, no 200 answered and its request
\* row not in status "pending".
C21_CancelLeavesNoPartialState ==
    (Cancelled /\ response.at = "rt_generate") =>
        /\ database.scripts = <<>>
        /\ response.status # 200
        /\ RowStatus # "pending"

\* The trend block as the prompt is to show it: present exactly when a
\* trend context was supplied, and then made of that context.
TrendBlockFits(h) ==
    IF TrendsSupplied(h.trends)
    THEN /\ StartsWith(h.trends_data, <<"\n", "C", "u", "r", "r", "e", "n", "t", " ", "T", "r", "e", "n", "d", "s", ":", "\n">>)
         /\ Contains(h.trends_data, h.trends.engagement_tips)
         /\ \A i \in 1..Len(h.trends.hashtags) :
               i <= 5 => Contains(h.trends_data, h.trends.hashtags[i])
    ELSE h.trends_data = <<>>

\* C22: once the trend service was invoked and the handler is past the
\* lookup, the generator has been invoked; after a lookup that raised it was
\* given no trend context, after a lookup that absorbed its own error it
\* was given the basic suggestions; and the trend block of the prompt is
\* rendered from a supplied context and is empty without one.
C22_TrendFailureNotFatal ==
    ("trends" \in handler.invoked /\ pc # "rt_trends" /\ ~Cancelled) =>
        /\ "generator" \in handler.invoked
        /\ handler.trend_lookup \in {"found", "absorbed", "raised"}
        /\ handler.trend_lookup = "raised" => ~TrendsSupplied(handler.trends)
        /\ handler.trend_lookup = "absorbed" =>
              handler.trends = TrendsFallback(request_data.topic.v, request_data.platform.v)
        /\ TrendBlockFits(handler)

\* A request whose trend lookup raised was answered 200.
C22_Witness ==
    /\ RunEnded
    /\ handler.trend_lookup = "raised"
    /\ handler.trends_data = <<>>
    /\ response.status = 200

\* C23 as claimed, the states: generation starts only with the request row
\* stored; when the handler has finished, the row is "success" with a
\* content_script_id that refers to a stored content script, or "failed"
\* with an error message.
C23_RowSettled ==
    /\ "generator" \in handler.invoked => RowStatus # "none"
    /\ (HandlerFinished /\ RowStatus # "none") =>
          \/ /\ RowStatus = "success"
             /\ database.requests[1].content_script_id.t = "int"
             /\ database.requests[1].content_script_id.v \in DOMAIN database.scripts
          \/ /\ RowStatus = "failed"
             /\ database.requests[1].error_message.t = "str"

\* C23 as claimed: the states, and a row that is "success" or "failed" keeps
\* its status.
C23_RequestAndResultPersisted ==
    /\ []C23_RowSettled
    /\ [][(RowStatus \in {"success", "failed"}) => (RowStatus' = RowStatus)]_vars

\* The backend call itself failed.
BackendCallFailed == handler.reply.kind = "raise"

\* The backend replied, and generation failed on the reply.
OutputUnusable ==
    /\ handler.reply.kind = "return"
    /\ handler.error.kind = "raise"
    /\ handler.error.type \in {"ContentGenerationError", "KeyError"}

\* C24 as claimed: every answer is 200, 422 or 500; a failure of the
\* backend call is answered with a server error, a failure on the model
\* output with a client error.
C24_FailureMapping ==
    HandlerFinished =>
        /\ response.status \in {200, 422, 500}
        /\ (response.by = "handler" /\ BackendCallFailed) => response.status = 500
        /\ (response.by = "handler" /\ OutputUnusable) => response.status = 422

\* The body lacks a required field, names a platform outside the three, or
\* has an empty topic.
BodyToReject(body) ==
    \/ body.topic = Absent \/ body.platform = Absent \/ body.target_audience = Absent
    \/ body.platform.v \notin PlatformNames
    \/ body.topic.v = <<>>

\* C25 as claimed: such a body never gets a request row nor a service
\* invoked, and is answered 422.
C25_InvalidBodyRejected ==
    BodyToReject(request_data) =>
        /\ database.requests = <<>>
        /\ handler.invoked = {}
        /\ RunEnded => response.status = 422

\* C30 as claimed: at the end of a run a content script is stored exactly
\* when the request row is "success", and then it is the one script, which
\* the row refers to.
C30_ScriptIffSuccess ==
    RunEnded =>
        /\ database.scripts # <<>> <=> RowStatus = "success"
        /\ RowStatus = "success" =>
              /\ Len(database.scripts) = 1
              /\ database.requests[1].content_script_id = PyInt(1)

(***************************************************************************)
(* The text scan on lines that hold a label anywhere.                      *)
(***************************************************************************)
\* The labels in the order in which the scan asks for them.
LabelOrder == <<k_hook, k_storyline, k_script, k_hashtags>>

\* The places in LabelOrder of the labels a line mentions, anywhere in the
\* line and in any letter case.
Mentioned(line) ==
    {i \in 1..Len(LabelOrder) : Contains(Lower(line), LabelOf(LabelOrder[i]))}

\* The section a line opens: that of the first label, in the order of
\* LabelOrder, which the line mentions.
Opened(line) ==
    IF Mentioned(line) = {} THEN NoSection ELSE LabelOrder[SetMin(Mentioned(line))]

\* The text of section k: the text after the first colon of the last line that
\* opens k, then the lines that follow it up to the next line that opens a
\* section; empty when no line opens k.
OverwrittenSection(raw, k) ==
    LET ls == NonEmptyLines(raw)
        at == {i \in 1..Len(ls) : Opened(ls[i]) = k}
    IN  IF at = {} THEN <<>>
        ELSE LET p == CHOOSE i \in at : \A j \in at : j <= i
                 later == {q \in (p + 1)..Len(ls) : Opened(ls[q]) # NoSection}
                 stop == IF later = {} THEN Len(ls) + 1 ELSE SetMin(later)
             IN  <<Strip(SplitFirstColon(ls[p])[2])>> \o SubSeq(ls, p + 1, stop - 1)

\* C26: on the text path a line opens a section whenever it mentions a label
\* anywhere, the first label in the order hook, storyline, script, hashtags
\* winning; each field holds the text after the first colon of the last line
\* that opened it followed by its continuation lines, so a later line that
\* mentions the label replaces what the field had collected.
C26_LabelAnywhere ==
    (pc = "parse_return" /\ OnTextPath(raw_content)) =>
        /\ parsed.kind = "return"
        /\ \A k \in {k_hook, k_storyline, k_script} :
              parsed.value[k] = PyStr(JoinWith(OverwrittenSection(raw_content, k), <<" ">>))
        /\ LET parts == OverwrittenSection(raw_content, k_hashtags)
               used == IF parts = <<>> THEN <<>>
                       ELSE <<parts[1]>>
                            \o SelectSeq(Tail(parts), LAMBDA l : StartsWith(l, <<"#">>))
               toks == HashTokens(JoinWith(used, <<" ">>))
           IN  parsed.value[k_hashtags]
                  = PyList([i \in 1..Len(toks) |-> StripChar(toks[i], "#")])

\* A hook with a continuation line, replaced by a later line that begins with
\* the script label and mentions the hook label: the hook is the text after
\* that line's first colon, and no script is opened.
C26_Witness ==
    /\ pc = "parse_return"
    /\ raw_content = <<" ", " ", "H", "O", "O", "K", ":", " ", "X", " ", "\n", "a", "n", "d", ":", " ", "m", "o", "r", "e", "\n", "S", "c", "r", "i", "p", "t", ":", " ", "t", "h", "e", " ", "h", "o", "o", "k", ":", " ", "Q">>
    /\ parsed.kind = "return"
    /\ parsed.value[k_hook] = PyStr(<<"t", "h", "e", " ", "h", "o", "o", "k", ":", " ", "Q">>)
    /\ parsed.value[k_script] = PyStr(<<>>)

(***************************************************************************)
(* The key of the template cache.                                          *)
(***************************************************************************)
\* C27 as claimed: the cache entry a get_template call reads belongs to the
\* pair of the call alone, so a call answered from the cache is a call for a
\* pair that was asked before, and it returns what that pair was given.
C27_KeyedByPair ==
    (TemplateReturned /\ tpl_call.hit) =>
        /\ tpl_call.asked_before
        /\ tpl_result = first_returned[<<tpl_call.template_type, tpl_call.platform>>]

(***************************************************************************)
(* Concurrent generate_content calls on one template loader.               *)
(***************************************************************************)
\* C28: in a session whose template files do not change, every call is
\* given the template that the files give for its platform, whatever calls
\* were started before it and whether or not they are still awaiting the
\* backend; calls for the same platform are given the same string, and the
\* cache entry of the pair holds that string.
C28_SameTemplateForAll ==
    /\ \A i \in DOMAIN calls :
          /\ calls[i].template = LoadTemplate(files, <<"c", "o", "n", "t", "e", "n", "t", "_", "g", "e", "n", "e", "r", "a", "t", "i", "o", "n">>, calls[i].platform)
          /\ cache_key(<<"c", "o", "n", "t", "e", "n", "t", "_", "g", "e", "n", "e", "r", "a", "t", "i", "o", "n">>, calls[i].platform) \in DOMAIN cache
          /\ cache[cache_key(<<"c", "o", "n", "t", "e", "n", "t", "_", "g", "e", "n", "e", "r", "a", "t", "i", "o", "n">>, calls[i].platform)] = calls[i].template
    /\ \A i, j \in DOMAIN calls :
          calls[i].platform = calls[j].platform => calls[i].template = calls[j].template

\* Two calls for the same platform are awaiting the backend at the same
\* time, both given the stored template, the later one from the cache.
C28_Witness ==
    /\ \E i, j \in DOMAIN calls :
          /\ i < j
          /\ calls[i].at = "awaiting" /\ calls[j].at = "awaiting"
          /\ calls[i].platform = calls[j].platform
          /\ calls[i].template = "stored template"
    /\ tpl_call.hit

(***************************************************************************)
(* RateLimitMiddleware (app/core/middleware.py).  dispatch holds no await  *)
(* before call_next, so the test of the limit and the recording of the     *)
(* request are one step.  Times are readings of time.time() in seconds.    *)
(***************************************************************************)
\* The seconds a recorded request counts for.
WindowSeconds == 60

\* request.client.host if request.client else "unknown"
Clients == {"10.0.0.1", "unknown"}

\* [t for t in times if t > current_time - 60]
RecentTimes(times, now) == SelectSeq(times, LAMBDA t : t > now - WindowSeconds)

\* The cleaning of old entries: the clients with some recent time keep their
\* entry, all times of it included.
CleanOld(reqs, now) ==
    LET kept == {ip \in DOMAIN reqs : RecentTimes(reqs[ip], now) # <<>>}
    IN  IF kept = {} THEN <<>> ELSE [ip \in kept |-> reqs[ip]]

\* Mutant of OverLimit: the limit itself is still let through.
OverLimitStrict(n) == n > requests_per_minute

\* len(recent_requests) >= self.requests_per_minute
OverLimit(n) == n >= requests_per_minute

\* The number of requests the middleware has been given.
Dispatched == IF rl_response = NoOutcome THEN 0 ELSE rl_response.seen

\* RateLimitMiddleware.__init__, and no other part of the program running.
InitRateLimit ==
    /\ pc = "rate_limit"
    /\ IdleRateLimit
    /\ IdleRoute
    /\ IdleTimestamps
    /\ IdleScore
    /\ IdleParse
    /\ IdleMusic
    /\ IdleGenerate
    /\ IdleTemplates
    /\ IdleSession

\* Time passes: the next reading of time.time() is later.
Tick ==
    /\ clock + ClockStep <= MaxClock
    /\ clock' = clock + ClockStep
    /\ UNCHANGED <<requests, accepted, rl_response, pc, route_vars, ts_vars, score_vars,
                   parse_vars, music_vars, gc_vars, tpl_vars, sess_vars>>

\* dispatch for a request of the client: it is answered 429, or recorded and
\* passed to call_next, whose answer stands for itself as 200.
Dispatch(client_ip) ==
    /\ Dispatched < MaxDispatches
    /\ \E cleaned \in {CleanOld(requests, clock)} :
          LET known == client_ip \in DOMAIN cleaned
              recent_requests == IF known THEN RecentTimes(cleaned[client_ip], clock)
                                 ELSE <<>>
              limited == known /\ OverLimit(Len(recent_requests))
          IN  /\ requests' = IF limited THEN cleaned
                             ELSE SetItem(cleaned, client_ip, Append(recent_requests, clock))
              /\ accepted' = IF limited THEN accepted
                             ELSE Append(accepted, [client |-> client_ip, at |-> clock])
              /\ rl_response' = [status |-> IF limited THEN 429 ELSE 200,
                                 client |-> client_ip, at |-> clock,
                                 before |-> accepted, seen |-> Dispatched + 1]
    /\ UNCHANGED <<clock, pc, route_vars, ts_vars, score_vars, parse_vars, music_vars,
                   gc_vars, tpl_vars, sess_vars>>

NextRateLimit == Tick \/ \E client_ip \in Clients : Dispatch(client_ip)

SpecRateLimit == InitRateLimit /\ [][NextRateLimit]_vars

(***************************************************************************)
(* Properties of the rate limiter.                                         *)
(***************************************************************************)
\* How many requests of a client, of those passed downstream, fall into the
\* 60 seconds that end at a time (the time itself included, the time 60
\* seconds before it not).
PassedWithin(log, client_ip, now) ==
    Cardinality({i \in DOMAIN log :
                    /\ log[i].client = client_ip
                    /\ log[i].at > now - WindowSeconds
                    /\ log[i].at <= now})

\* C29: no client has more than requests_per_minute requests passed
\* downstream in the 60 seconds up to any time (the count is largest at the
\* time of a passed request, so these times are tried); a request is answered 429
\* exactly when requests_per_minute requests of its own client were passed
\* in the 60 seconds before it, and is passed downstream otherwise; a
\* request answered 429 is not recorded, and the recorded times of a client
\* are times of requests of that client which were passed.
C29_AtMostLimitPerWindow ==
    /\ \A c \in Clients, now \in {accepted[i].at : i \in DOMAIN accepted} :
          PassedWithin(accepted, c, now) <= requests_per_minute
    /\ rl_response # NoOutcome =>
          /\ rl_response.status = 429
                <=> PassedWithin(rl_response.before, rl_response.client, rl_response.at)
                       = requests_per_minute
          /\ rl_response.status = 429 => accepted = rl_response.before
          /\ rl_response.status # 429 =>
                accepted = Append(rl_response.before,
                                  [client |-> rl_response.client, at |-> rl_response.at])
    /\ \A c \in DOMAIN requests :
          /\ Len(requests[c]) <= Cardinality({i \in DOMAIN accepted : accepted[i].client = c})
          /\ \A k \in DOMAIN requests[c] :
                \E i \in DOMAIN accepted :
                   accepted[i] = [client |-> c, at |-> requests[c][k]]

\* A request is answered 429 although an earlier request of its client,
\* passed more than the window ago, lies in the log, while a request of
\* another client was passed within the window.
C29_Witness ==
    /\ rl_response # NoOutcome
    /\ rl_response.status = 429
    /\ \E i \in DOMAIN accepted :
          /\ accepted[i].client = rl_response.client
          /\ accepted[i].at <= rl_response.at - WindowSeconds
    /\ \E i \in DOMAIN accepted :
          /\ accepted[i].client # rl_response.client
          /\ accepted[i].at > rl_response.at - WindowSeconds

====
